---- MODULE Spec2Model ----
(***************************************************************************)
(* Verification model of the incident-investigation service:               *)
(*   - the investigation workflow graph (src/graph/investigation.py) and   *)
(*     its node functions (src/agents/*.py), executed superstep by         *)
(*     superstep with additive merge of the list channels;                 *)
(*   - the InvestigationRunner (src/core/runner.py) with its asyncio.Lock, *)
(*     background tasks and the persistence calls (src/db/repository.py).  *)
(* Confidences are integers in hundredths (0.7 is 70).                     *)
(***************************************************************************)
EXTENDS Integers, Sequences, FiniteSets, TLC

VARIABLES
    \* ---- workflow execution (one graph.ainvoke) ----
    settings,      \* Settings read by the nodes: threshold, github token/repo
    wfpc,          \* "running" | "done"
    wfState,       \* InvestigationState channels
    active,        \* nodes scheduled in the current superstep, not yet finished
    ranNow,        \* nodes finished in the current superstep
    pending,       \* updates returned in the current superstep, completion order
    history,       \* node names in order of completion
    outcome,       \* what the LLM call of each finished step did
    rollbackCalls, \* number of connector calls made by act
    \* ---- runner ----
    locked,        \* InvestigationRunner._lock._locked
    waiters,       \* InvestigationRunner._lock._waiters (FIFO of run ids)
    current_id,    \* InvestigationRunner._current_id (0 is None)
    db,            \* investigations table: id -> record
    stored,        \* set of ids that have a row
    callpc,        \* position of each start_investigation call
    runpc,         \* position of each background _run task
    runErr,        \* exception text caught by each run ("" when none)
    result,        \* value returned by graph.ainvoke to each run
    \* ---- rate limiter ----
    rate_settings, \* Settings.rate_limit_requests_per_minute / _burst_size
    limiter,       \* the limiter under study (Null until constructed)
    tokens,        \* _tokens, in units of 1/TokenScale
    last_refill,   \* _last_refill
    born,          \* time of construction
    rlLocked,      \* TokenBucketRateLimiter._lock._locked
    rlWaiters,     \* TokenBucketRateLimiter._lock._waiters (FIFO of callers)
    rlHolder,      \* caller that took the lock last (0 when free)
    now,           \* time.monotonic(), in seconds
    rlpc,          \* position of each acquire() caller
    wakeAt,        \* end of each caller's current sleep
    acquired,      \* number of acquire() calls that have returned
    \* ---- HTTP routes ----
    alertReq,      \* body of each POST /api/v1/alert request (Null before it)
    alertResp,     \* response to each POST /api/v1/alert request
    reportResp,    \* the last report request and its status code
    repopc,        \* position of the repository caller
    repoCall,      \* the repository operation in progress or last made
    repoRet,       \* what that operation returned
    \* ---- remediation connector called directly ----
    rbpc,          \* position of the trigger_rollback caller
    rbService,     \* service argument of the call in progress or last made
    rbOutcome,     \* what the POST of that call did ("none" without one)
    rbResult,      \* RollbackResult returned by the last call (Null before it)
    rbPosts,       \* number of POST requests sent to the GitHub API
    \* ---- topology queries ----
    topoCall,      \* the last topology query: function name and argument
    topoRet,       \* the list it returned
    walk,          \* services visited so far along depends_on edges
    \* ---- deployment evidence of the deploy agent ----
    dwData,        \* MockDataSet generated for the scenario (Null before it)
    dwQuery,       \* the last get_deployments call of the deploy agent
    dwRet          \* the deployment events that call listed

wfVars == <<settings, wfpc, wfState, active, ranNow, pending, history, outcome, rollbackCalls>>
runnerVars == <<locked, waiters, current_id, db, stored, callpc, runpc, runErr, result>>
limiterVars == <<rate_settings, limiter, tokens, last_refill, born, rlLocked, rlWaiters,
                 rlHolder, now, rlpc, wakeAt, acquired>>
apiVars == <<alertReq, alertResp, reportResp>>
extraVars == <<repopc, repoCall, repoRet>>
callVars == <<rbpc, rbService, rbOutcome, rbResult, rbPosts, topoCall, topoRet, walk,
              dwData, dwQuery, dwRet>>
sideVars == <<limiterVars, apiVars, extraVars, callVars>>
vars == <<settings, wfpc, wfState, active, ranNow, pending, history, outcome, rollbackCalls,
          locked, waiters, current_id, db, stored, callpc, runpc, runErr, result,
          rate_settings, limiter, tokens, last_refill, born, rlLocked, rlWaiters,
          rlHolder, now, rlpc, wakeAt, acquired, alertReq, alertResp, reportResp,
          repopc, repoCall, repoRet, rbpc, rbService, rbOutcome, rbResult, rbPosts,
          topoCall, topoRet, walk, dwData, dwQuery, dwRet>>

----------------------------------------------------------------------------
(* Bounds *)

\* number of start_investigation calls made on the runner
MaxCalls == 2

----------------------------------------------------------------------------
(* Program constants *)

\* Settings.confidence_threshold_for_action default, in hundredths
DefaultThreshold == 70

\* confidence used when an LLM reply is not valid JSON, in hundredths
ParseFallbackConfidence == 50

\* values of confidence_threshold_for_action the environment may configure
Thresholds == {0, DefaultThreshold, 100}

\* confidences an LLM reply to decide may carry
DecideConfidences == {0, 69, 70, 100}

\* confidence an LLM reply to a specialist agent carries
AgentConfidences == {90}

Agents == {"logs_agent", "metrics_agent", "deploy_agent"}

Nodes == {"detect", "plan", "decide", "act", "report"} \cup Agents

\* outcome of the LLM call of a step: a JSON reply, a reply that is not
\* JSON, or an exception
AgentOutcomes ==
    {[kind |-> "ok", confidence |-> c] : c \in AgentConfidences}
    \cup {[kind |-> "unparseable", confidence |-> ParseFallbackConfidence],
          [kind |-> "raise", confidence |-> 0]}

PlanOutcomes == {"ok", "unparseable", "raise"}

DecideOutcomes ==
    {[kind |-> "ok", confidence |-> c] : c \in DecideConfidences}
    \cup {[kind |-> "unparseable", confidence |-> ParseFallbackConfidence],
          [kind |-> "raise", confidence |-> 0]}

\* outcome of the outbound rollback request
RollbackOutcomes == {"204", "other_status", "http_error"}

ErrText == "API key invalid"

----------------------------------------------------------------------------
(* InvestigationState and the reducers *)

ListChannels == {"findings", "agent_errors", "reasoning_trace"}

Channels == {"status", "plan", "root_cause", "recommendation", "confidence",
             "findings", "agent_errors", "reasoning_trace", "report",
             "remediation_action"}

NoReport == [present |-> FALSE, status |-> "None", confidence |-> 0,
             nfindings |-> 0, root_cause |-> "None",
             remediation_action |-> "None"]

\* initial_state passed to graph.ainvoke
InitialState ==
    [status |-> "detecting", plan |-> "None", root_cause |-> "None",
     recommendation |-> "None", confidence |-> 0, findings |-> <<>>,
     agent_errors |-> <<>>, reasoning_trace |-> <<>>, report |-> NoReport,
     remediation_action |-> "None"]

\* a node's returned dict: `written` are the keys present in it
NoUpdate ==
    [written |-> {}, status |-> "None", plan |-> "None", root_cause |-> "None",
     recommendation |-> "None", confidence |-> 0, findings |-> <<>>,
     agent_errors |-> <<>>, reasoning_trace |-> <<>>, report |-> NoReport,
     remediation_action |-> "None"]

\* a sibling's write replaces the list instead of being appended to it
MergeOverwrite(s, u) ==
    [ch \in Channels |-> IF ch \in u.written THEN u[ch] ELSE s[ch]]

\* channel update: operator.add on the annotated lists, last value otherwise
Merge(s, u) ==
    [ch \in Channels |->
        IF ch \in ListChannels
        THEN (IF ch \in u.written THEN s[ch] \o u[ch] ELSE s[ch])
        ELSE (IF ch \in u.written THEN u[ch] ELSE s[ch])]

RECURSIVE ApplyAll(_, _)
ApplyAll(s, us) ==
    IF us = <<>> THEN s ELSE ApplyAll(Merge(s, Head(us)), Tail(us))

----------------------------------------------------------------------------
(* Node functions: each returns the update dict of the node *)

NoOutcome == [kind |-> "none", confidence |-> 0]

detect_node(s) ==
    [NoUpdate EXCEPT !.written = {"status", "reasoning_trace"},
                     !.status = "detecting",
                     !.reasoning_trace = <<<<"Commander", "Alert detected">>>>]

\* try: LLM reply parsed (or the parse fallback); except: fallback plan
plan_node(s, out) ==
    [NoUpdate EXCEPT
        !.written = {"status", "plan", "reasoning_trace"},
        !.status = "planning",
        !.plan = CASE out = "ok" -> "llm_plan"
                   [] out = "unparseable" -> "broad_plan"
                   [] OTHER -> "fallback_plan",
        !.reasoning_trace =
            IF out = "raise"
            THEN <<<<"Commander", "Plan creation failed", ErrText>>>>
            ELSE <<<<"Commander", "Investigation plan created">>>>]

\* the failed finding keeps the parse-fallback confidence instead of 0.0
AgentUpdateKeepsConfidence(name, label, out) ==
    IF out.kind = "raise"
    THEN [NoUpdate EXCEPT
            !.written = {"findings", "agent_errors", "reasoning_trace"},
            !.findings = <<[agent_name |-> name, summary |-> "analysis failed",
                            confidence |-> ParseFallbackConfidence]>>,
            !.agent_errors = <<<<name, ErrText>>>>,
            !.reasoning_trace = <<<<label, "FAILED", ErrText>>>>]
    ELSE [NoUpdate EXCEPT
            !.written = {"findings", "reasoning_trace"},
            !.findings = <<[agent_name |-> name,
                            summary |-> IF out.kind = "ok" THEN "llm_summary"
                                        ELSE "raw_reply",
                            confidence |-> out.confidence]>>,
            !.reasoning_trace =
                <<<<label, IF out.kind = "ok" THEN "llm_summary"
                           ELSE "raw_reply">>>>]

\* the exception handler leaving out the agent_errors entry
AgentUpdateNoError(name, label, out) ==
    IF out.kind = "raise"
    THEN [NoUpdate EXCEPT
            !.written = {"findings", "reasoning_trace"},
            !.findings = <<[agent_name |-> name, summary |-> "analysis failed",
                            confidence |-> 0]>>,
            !.reasoning_trace = <<<<label, "FAILED", ErrText>>>>]
    ELSE [NoUpdate EXCEPT
            !.written = {"findings", "reasoning_trace"},
            !.findings = <<[agent_name |-> name,
                            summary |-> IF out.kind = "ok" THEN "llm_summary"
                                        ELSE "raw_reply",
                            confidence |-> out.confidence]>>,
            !.reasoning_trace =
                <<<<label, IF out.kind = "ok" THEN "llm_summary"
                           ELSE "raw_reply">>>>]

\* body shared by the three specialist agents: one finding and one trace
\* entry; on any exception a 0.0-confidence finding and "<agent>: <error>"
AgentUpdate(name, label, out) ==
    IF out.kind = "raise"
    THEN [NoUpdate EXCEPT
            !.written = {"findings", "agent_errors", "reasoning_trace"},
            !.findings = <<[agent_name |-> name, summary |-> "analysis failed",
                            confidence |-> 0]>>,
            !.agent_errors = <<<<name, ErrText>>>>,
            !.reasoning_trace = <<<<label, "FAILED", ErrText>>>>]
    ELSE [NoUpdate EXCEPT
            !.written = {"findings", "reasoning_trace"},
            !.findings = <<[agent_name |-> name,
                            summary |-> IF out.kind = "ok" THEN "llm_summary"
                                        ELSE "raw_reply",
                            confidence |-> out.confidence]>>,
            !.reasoning_trace =
                <<<<label, IF out.kind = "ok" THEN "llm_summary"
                           ELSE "raw_reply">>>>]

logs_agent_node(s, out) == AgentUpdate("logs_agent", "Logs Agent", out)

metrics_agent_node(s, out) == AgentUpdate("metrics_agent", "Metrics Agent", out)

deploy_agent_node(s, out) == AgentUpdate("deploy_agent", "Deploy Agent", out)

decide_node(s, out) ==
    [NoUpdate EXCEPT
        !.written = {"status", "root_cause", "confidence", "recommendation",
                     "reasoning_trace"},
        !.status = "deciding",
        !.root_cause = CASE out.kind = "ok" -> "llm_root_cause"
                         [] out.kind = "unparseable" -> "raw_reply"
                         [] OTHER -> "Decision failed",
        !.confidence = IF out.kind = "raise" THEN 0 ELSE out.confidence,
        !.recommendation =
            CASE out.kind = "ok" -> "llm_recommendation"
              [] out.kind = "unparseable" -> "Manual investigation recommended"
              [] OTHER -> "Manual investigation required",
        !.reasoning_trace =
            IF out.kind = "raise"
            THEN <<<<"Commander", "Decision FAILED", ErrText>>>>
            ELSE <<<<"Commander", "Decision">>>>]

\* the router ignoring the confidence
should_act_or_report_always(s, st) == "act"

\* strict comparison: equality no longer routes to act
should_act_or_report_strict(s, st) ==
    IF s.confidence > st.threshold THEN "act" ELSE "report"

should_act_or_report(s, st) ==
    IF s.confidence >= st.threshold THEN "act" ELSE "report"

\* RollbackResult of a call that built no request or whose request failed
RollbackFailure(msg) ==
    [raised |-> FALSE, success |-> FALSE, message |-> msg,
     workflow_url |-> FALSE, status_code |-> <<>>]

\* the connector without its except clause: a failed request propagates
trigger_rollback_uncaught(st, rb) ==
    IF ~st.github_token THEN RollbackFailure("GitHub token not configured")
    ELSE IF ~st.github_rollback_repo
    THEN RollbackFailure("GitHub rollback repo not configured")
    ELSE CASE rb = "204" ->
                [raised |-> FALSE, success |-> TRUE,
                 message |-> "Rollback triggered",
                 workflow_url |-> TRUE, status_code |-> <<204>>]
           [] rb = "other_status" ->
                [RollbackFailure("GitHub API returned")
                    EXCEPT !.status_code = <<404>>]
           [] OTHER -> [RollbackFailure("") EXCEPT !.raised = TRUE]

\* trigger_rollback(service): rb is what the POST did, consulted only when
\* token and repository are both set
trigger_rollback(st, rb) ==
    IF ~st.github_token THEN RollbackFailure("GitHub token not configured")
    ELSE IF ~st.github_rollback_repo
    THEN RollbackFailure("GitHub rollback repo not configured")
    ELSE CASE rb = "204" ->
                [raised |-> FALSE, success |-> TRUE,
                 message |-> "Rollback triggered",
                 workflow_url |-> TRUE, status_code |-> <<204>>]
           [] rb = "other_status" ->
                [RollbackFailure("GitHub API returned")
                    EXCEPT !.status_code = <<404>>]
           [] OTHER -> RollbackFailure("HTTP error triggering rollback")

\* the connector is called only when token and repository are both set
ActCallsConnector(st) == st.github_token /\ st.github_rollback_repo

\* the act step returning no action text when the rollback did not succeed
act_node_unset(s, st, rb) ==
    LET res == trigger_rollback(st, rb) IN
    [NoUpdate EXCEPT
        !.written = IF ActCallsConnector(st) /\ ~res.success
                    THEN {"status", "reasoning_trace"}
                    ELSE {"status", "remediation_action", "reasoning_trace"},
        !.status = "acting",
        !.remediation_action = "RECOMMENDED ACTION",
        !.reasoning_trace = <<<<"Commander", "RECOMMENDED ACTION">>>>]

act_node(s, st, rb) ==
    LET res == trigger_rollback(st, rb) IN
    [NoUpdate EXCEPT
        !.written = {"status", "remediation_action", "reasoning_trace"},
        !.status = "acting",
        !.remediation_action =
            IF ActCallsConnector(st)
            THEN (IF res.success
                  THEN "RECOMMENDED ACTION | ROLLBACK TRIGGERED"
                  ELSE "RECOMMENDED ACTION | ROLLBACK FAILED")
            ELSE "RECOMMENDED ACTION",
        !.reasoning_trace =
            <<<<"Commander", "RECOMMENDED ACTION">>>> \o
            (IF ActCallsConnector(st)
             THEN (IF res.success
                   THEN <<<<"Commander", "rollback triggered">>>>
                   ELSE <<<<"Commander", "rollback failed">>>>)
             ELSE <<<<"Commander", "GitHub remediation not configured">>>>)]

\* the report step returning no status
report_node_keeps_status(s) ==
    [NoUpdate EXCEPT
        !.written = {"report", "reasoning_trace"},
        !.report = [present |-> TRUE, status |-> "completed",
                    confidence |-> s.confidence,
                    nfindings |-> Len(s.findings),
                    root_cause |-> s.root_cause,
                    remediation_action |-> s.remediation_action],
        !.reasoning_trace = <<<<"Commander", "Investigation complete">>>>]

report_node(s) ==
    [NoUpdate EXCEPT
        !.written = {"status", "report", "reasoning_trace"},
        !.status = "reporting",
        !.report = [present |-> TRUE, status |-> "completed",
                    confidence |-> s.confidence,
                    nfindings |-> Len(s.findings),
                    root_cause |-> s.root_cause,
                    remediation_action |-> s.remediation_action],
        !.reasoning_trace = <<<<"Commander", "Investigation complete">>>>]

----------------------------------------------------------------------------
(* The compiled graph *)

\* act is wired to END instead of report
SuccessorsActEnds(n, s, st) ==
    CASE n = "detect" -> {"plan"}
      [] n = "plan" -> Agents
      [] n \in Agents -> {"decide"}
      [] n = "decide" -> {should_act_or_report(s, st)}
      [] OTHER -> {}

\* edges of build_investigation_graph; decide's edge is the conditional one
Successors(n, s, st) ==
    CASE n = "detect" -> {"plan"}
      [] n = "plan" -> Agents
      [] n \in Agents -> {"decide"}
      [] n = "decide" -> {should_act_or_report(s, st)}
      [] n = "act" -> {"report"}
      [] OTHER -> {}

\* no fan-in barrier: each finished node is merged and its successors are
\* scheduled at once
CompleteEager(n, u) ==
    LET s2 == Merge(wfState, u)
        next == (active \ {n}) \cup Successors(n, s2, settings)
    IN  /\ wfpc = "running"
        /\ n \in active
        /\ history' = Append(history, n)
        /\ wfState' = s2
        /\ pending' = <<>>
        /\ ranNow' = {}
        /\ active' = next
        /\ wfpc' = IF next = {} THEN "done" ELSE "running"

\* a node of the current superstep finishes with update u; when it is the
\* last one of the superstep, all buffered updates are merged and the
\* successors of the nodes that ran are scheduled (none: the run ends)
Complete(n, u) ==
    LET rest == active \ {n}
        us == Append(pending, u)
        ran == ranNow \cup {n}
        s2 == ApplyAll(wfState, us)
        next == UNION {Successors(m, s2, settings) : m \in ran}
    IN  /\ wfpc = "running"
        /\ n \in active
        /\ history' = Append(history, n)
        /\ IF rest = {}
           THEN /\ wfState' = s2
                /\ pending' = <<>>
                /\ ranNow' = {}
                /\ active' = next
                /\ wfpc' = IF next = {} THEN "done" ELSE "running"
           ELSE /\ wfState' = wfState
                /\ pending' = us
                /\ ranNow' = ran
                /\ active' = rest
                /\ wfpc' = wfpc

Detect ==
    /\ Complete("detect", detect_node(wfState))
    /\ UNCHANGED <<settings, outcome, rollbackCalls>>
    /\ UNCHANGED <<runnerVars, sideVars>>

Plan ==
    \E out \in PlanOutcomes :
        /\ Complete("plan", plan_node(wfState, out))
        /\ outcome' = [outcome EXCEPT !["plan"] = [kind |-> out, confidence |-> 0]]
        /\ UNCHANGED <<settings, rollbackCalls>>
        /\ UNCHANGED <<runnerVars, sideVars>>

LogsAgent ==
    \E out \in AgentOutcomes :
        /\ Complete("logs_agent", logs_agent_node(wfState, out))
        /\ outcome' = [outcome EXCEPT !["logs_agent"] = out]
        /\ UNCHANGED <<settings, rollbackCalls>>
        /\ UNCHANGED <<runnerVars, sideVars>>

MetricsAgent ==
    \E out \in AgentOutcomes :
        /\ Complete("metrics_agent", metrics_agent_node(wfState, out))
        /\ outcome' = [outcome EXCEPT !["metrics_agent"] = out]
        /\ UNCHANGED <<settings, rollbackCalls>>
        /\ UNCHANGED <<runnerVars, sideVars>>

DeployAgent ==
    \E out \in AgentOutcomes :
        /\ Complete("deploy_agent", deploy_agent_node(wfState, out))
        /\ outcome' = [outcome EXCEPT !["deploy_agent"] = out]
        /\ UNCHANGED <<settings, rollbackCalls>>
        /\ UNCHANGED <<runnerVars, sideVars>>

Decide ==
    \E out \in DecideOutcomes :
        /\ Complete("decide", decide_node(wfState, out))
        /\ outcome' = [outcome EXCEPT !["decide"] = out]
        /\ UNCHANGED <<settings, rollbackCalls>>
        /\ UNCHANGED <<runnerVars, sideVars>>

Act ==
    \E rb \in RollbackOutcomes :
        /\ Complete("act", act_node(wfState, settings, rb))
        /\ rollbackCalls' = IF ActCallsConnector(settings)
                            THEN rollbackCalls + 1 ELSE rollbackCalls
        /\ outcome' = [outcome EXCEPT !["act"] =
                          [kind |-> IF ActCallsConnector(settings) THEN rb
                                    ELSE "not_configured",
                           confidence |-> 0]]
        /\ UNCHANGED settings
        /\ UNCHANGED <<runnerVars, sideVars>>

Report ==
    /\ Complete("report", report_node(wfState))
    /\ UNCHANGED <<settings, outcome, rollbackCalls>>
    /\ UNCHANGED <<runnerVars, sideVars>>


----------------------------------------------------------------------------
(* graph.ainvoke as a function of what the LLM and the connector do *)

\* inputs of one workflow execution: the outcome of each LLM call and of
\* the rollback request
AllOk == [kind |-> "ok", confidence |-> 90]

AllRaise == [kind |-> "raise", confidence |-> 0]

WorkflowInputs ==
    {[plan |-> "ok", logs |-> AllOk, metrics |-> AllOk, deploy |-> AllOk,
      decide |-> [kind |-> "ok", confidence |-> 100], rb |-> "204"],
     [plan |-> "raise", logs |-> AllRaise, metrics |-> AllRaise,
      deploy |-> AllRaise, decide |-> AllRaise, rb |-> "204"]}

ainvoke(in, st) ==
    LET s1 == Merge(InitialState, detect_node(InitialState))
        s2 == Merge(s1, plan_node(s1, in.plan))
        s3 == ApplyAll(s2, <<logs_agent_node(s2, in.logs),
                             metrics_agent_node(s2, in.metrics),
                             deploy_agent_node(s2, in.deploy)>>)
        s4 == Merge(s3, decide_node(s3, in.decide))
        s5 == IF should_act_or_report(s4, st) = "act"
              THEN Merge(s4, act_node(s4, st, in.rb)) ELSE s4
    IN  Merge(s5, report_node(s5))

----------------------------------------------------------------------------
(* Persistence: InvestigationRecord rows and the repository functions *)

Calls == 1..MaxCalls

\* nullable columns hold <<>> (NULL) or <<v>>
Null == <<>>

Some(v) == <<v>>

\* row inserted by create_investigation
NewRecord(id) ==
    [id |-> id, scenario_type |-> Some("scenario"), alert_data |-> "alert",
     status |-> "detecting", plan_data |-> Null, findings_data |-> Null,
     reasoning_trace |-> Null, agent_errors |-> Null, root_cause |-> Null,
     confidence |-> Null, recommendation |-> Null, remediation_action |-> Null,
     report_data |-> Null, created_at |-> "now", completed_at |-> Null,
     duration_seconds |-> Null]

\* setattr for every key passed, whether the record has it or not
update_investigation_any(rec, kwargs) ==
    [f \in DOMAIN rec \cup DOMAIN kwargs |->
        IF f \in DOMAIN kwargs THEN kwargs[f] ELSE rec[f]]

\* setattr for every key the record has; other keys are ignored
update_investigation(rec, kwargs) ==
    [f \in DOMAIN rec |-> IF f \in DOMAIN kwargs THEN kwargs[f] ELSE rec[f]]

InvestigatingKwargs == [status |-> "investigating"]

\* update_kwargs built after the workflow returned
CompletedBase(res) ==
    [status |-> "completed", duration_seconds |-> Some("elapsed"),
     completed_at |-> Some("utcnow"),
     reasoning_trace |-> Some(res.reasoning_trace),
     agent_errors |-> Some(res.agent_errors),
     confidence |-> Some(res.confidence),
     root_cause |-> Some(res.root_cause),
     recommendation |-> Some(res.recommendation),
     remediation_action |-> IF res.remediation_action = "None" THEN Null
                            ELSE Some(res.remediation_action)]

CompletedKwargs(res) ==
    LET opt == [plan_data |-> Some(res.plan),
                findings_data |-> Some(res.findings),
                report_data |-> Some(res.report)]
        keys == {k \in {"plan_data"} : res.plan # "None"}
                \cup {k \in {"findings_data"} : res.findings # <<>>}
                \cup {k \in {"report_data"} : res.report.present}
        base == CompletedBase(res)
    IN  [k \in DOMAIN base \cup keys |->
            IF k \in DOMAIN base THEN base[k] ELSE opt[k]]

\* the handler stores no error text
FailedKwargsNoErrors(e) ==
    [status |-> "failed", duration_seconds |-> Some("elapsed"),
     completed_at |-> Some("utcnow")]

\* update issued by the except handler
FailedKwargs(e) ==
    [status |-> "failed", duration_seconds |-> Some("elapsed"),
     completed_at |-> Some("utcnow"), agent_errors |-> Some(<<e>>)]

----------------------------------------------------------------------------
(* InvestigationRunner *)

\* positions of a background run between acquiring and releasing the lock
Guarded == {"upd_inv", "ref_inv", "invoke", "upd_done", "ref_done",
            "upd_fail", "ref_fail"}

\* "done": _run returned; "crashed": the handler's own update raised and
\* the exception ended the task
Ended == {"done", "crashed"}

\* ids are fresh: call c is the c-th call made on the runner
NextCall(c) == IF c = 1 THEN TRUE ELSE callpc[c - 1] # "idle"

\* start_investigation, lock held: raises InvestigationAlreadyRunning
StartRejected(c) ==
    /\ callpc[c] = "idle"
    /\ NextCall(c)
    /\ locked
    /\ callpc' = [callpc EXCEPT ![c] = "rejected"]
    /\ UNCHANGED <<locked, waiters, current_id, db, stored, runpc, runErr, result>>
    /\ UNCHANGED <<wfVars, sideVars>>

\* start_investigation, lock free, MockDataGenerator.generate raises
StartInvalid(c) ==
    /\ callpc[c] = "idle"
    /\ NextCall(c)
    /\ ~locked
    /\ callpc' = [callpc EXCEPT ![c] = "invalid"]
    /\ UNCHANGED <<locked, waiters, current_id, db, stored, runpc, runErr, result>>
    /\ UNCHANGED <<wfVars, sideVars>>

\* start_investigation, lock free: id and data generated, suspended in
\* create_investigation's commit
StartBegin(c) ==
    /\ callpc[c] = "idle"
    /\ NextCall(c)
    /\ ~locked
    /\ callpc' = [callpc EXCEPT ![c] = "creating"]
    /\ UNCHANGED <<locked, waiters, current_id, db, stored, runpc, runErr, result>>
    /\ UNCHANGED <<wfVars, sideVars>>

\* create_investigation: session.commit() returns or raises
CreateCommit(c) ==
    /\ callpc[c] = "creating"
    /\ \E ok \in BOOLEAN :
        IF ok
        THEN /\ db' = [db EXCEPT ![c] = NewRecord(c)]
             /\ stored' = stored \cup {c}
             /\ callpc' = [callpc EXCEPT ![c] = "refreshing"]
        ELSE /\ callpc' = [callpc EXCEPT ![c] = "db_error"]
             /\ UNCHANGED <<db, stored>>
    /\ UNCHANGED <<locked, waiters, current_id, runpc, runErr, result>>
    /\ UNCHANGED <<wfVars, sideVars>>

\* create_investigation: session.refresh() returns or raises; on return
\* asyncio.create_task(self._run(...)) and the id is returned
CreateRefresh(c) ==
    /\ callpc[c] = "refreshing"
    /\ \E ok \in BOOLEAN :
        IF ok
        THEN /\ runpc' = [runpc EXCEPT ![c] = "scheduled"]
             /\ callpc' = [callpc EXCEPT ![c] = "accepted"]
        ELSE /\ callpc' = [callpc EXCEPT ![c] = "db_error"]
             /\ UNCHANGED runpc
    /\ UNCHANGED <<locked, waiters, current_id, db, stored, runErr, result>>
    /\ UNCHANGED <<wfVars, sideVars>>

\* the run enters the guarded section without looking at the lock
RunAcquireUnguarded(r) ==
    /\ runpc[r] = "scheduled"
    /\ locked' = TRUE
    /\ current_id' = r
    /\ runpc' = [runpc EXCEPT ![r] = "upd_inv"]
    /\ UNCHANGED waiters
    /\ UNCHANGED <<db, stored, callpc, runErr, result>>
    /\ UNCHANGED <<wfVars, sideVars>>

\* _run reaches `async with self._lock`: asyncio.Lock.acquire takes a free
\* lock with no waiter at once, otherwise the task queues on _waiters
RunAcquire(r) ==
    /\ runpc[r] = "scheduled"
    /\ IF ~locked /\ waiters = <<>>
       THEN /\ locked' = TRUE
            /\ current_id' = r
            /\ runpc' = [runpc EXCEPT ![r] = "upd_inv"]
            /\ UNCHANGED waiters
       ELSE /\ waiters' = Append(waiters, r)
            /\ runpc' = [runpc EXCEPT ![r] = "waiting"]
            /\ UNCHANGED <<locked, current_id>>
    /\ UNCHANGED <<db, stored, callpc, runErr, result>>
    /\ UNCHANGED <<wfVars, sideVars>>

\* release() wakes nobody: the first waiter stays suspended
RunWakeLost(r) ==
    /\ runpc[r] = "waiting"
    /\ ~locked
    /\ waiters # <<>>
    /\ Head(waiters) = r
    /\ UNCHANGED vars

\* the first waiter, woken by release(), resumes and takes the lock
RunWake(r) ==
    /\ runpc[r] = "waiting"
    /\ ~locked
    /\ waiters # <<>>
    /\ Head(waiters) = r
    /\ locked' = TRUE
    /\ waiters' = Tail(waiters)
    /\ current_id' = r
    /\ runpc' = [runpc EXCEPT ![r] = "upd_inv"]
    /\ UNCHANGED <<db, stored, callpc, runErr, result>>
    /\ UNCHANGED <<wfVars, sideVars>>

\* the lock stays held and the pointer stays set when the run ends
RunExitKeepsLock(r, final) ==
    /\ runpc' = [runpc EXCEPT ![r] = final]
    /\ UNCHANGED <<locked, current_id, waiters>>

\* the lock is released but the finally clause leaves the pointer set
RunExitKeepsId(r, final) ==
    /\ runpc' = [runpc EXCEPT ![r] = final]
    /\ locked' = FALSE
    /\ UNCHANGED <<current_id, waiters>>

\* finally: self._current_id = None; then the lock's __aexit__ releases it
RunExit(r, final) ==
    /\ runpc' = [runpc EXCEPT ![r] = final]
    /\ current_id' = 0
    /\ locked' = FALSE
    /\ UNCHANGED waiters

\* update_investigation(status="investigating"): commit returns or raises
RunInvestigatingCommit(r) ==
    /\ runpc[r] = "upd_inv"
    /\ \E ok \in BOOLEAN :
        IF ok
        THEN /\ db' = [db EXCEPT ![r] = update_investigation(db[r], InvestigatingKwargs)]
             /\ runpc' = [runpc EXCEPT ![r] = "ref_inv"]
             /\ UNCHANGED runErr
        ELSE /\ runErr' = [runErr EXCEPT ![r] = "db error"]
             /\ runpc' = [runpc EXCEPT ![r] = "upd_fail"]
             /\ UNCHANGED db
    /\ UNCHANGED <<locked, waiters, current_id, stored, callpc, result>>
    /\ UNCHANGED <<wfVars, sideVars>>

\* ... refresh returns (initial state built, graph.ainvoke awaited) or raises
RunInvestigatingRefresh(r) ==
    /\ runpc[r] = "ref_inv"
    /\ \E ok \in BOOLEAN :
        IF ok
        THEN /\ runpc' = [runpc EXCEPT ![r] = "invoke"]
             /\ UNCHANGED runErr
        ELSE /\ runErr' = [runErr EXCEPT ![r] = "db error"]
             /\ runpc' = [runpc EXCEPT ![r] = "upd_fail"]
    /\ UNCHANGED <<locked, waiters, current_id, db, stored, callpc, result>>
    /\ UNCHANGED <<wfVars, sideVars>>

\* graph.ainvoke returns the final state
RunInvokeReturns(r) ==
    /\ runpc[r] = "invoke"
    /\ \E in \in WorkflowInputs :
        result' = [result EXCEPT ![r] = ainvoke(in, settings)]
    /\ runpc' = [runpc EXCEPT ![r] = "upd_done"]
    /\ UNCHANGED <<locked, waiters, current_id, db, stored, callpc, runErr>>
    /\ UNCHANGED <<wfVars, sideVars>>

\* graph.ainvoke raises
RunInvokeRaises(r) ==
    /\ runpc[r] = "invoke"
    /\ runErr' = [runErr EXCEPT ![r] = "workflow error"]
    /\ runpc' = [runpc EXCEPT ![r] = "upd_fail"]
    /\ UNCHANGED <<locked, waiters, current_id, db, stored, callpc, result>>
    /\ UNCHANGED <<wfVars, sideVars>>

\* update_investigation(**update_kwargs): commit returns or raises
RunCompletedCommit(r) ==
    /\ runpc[r] = "upd_done"
    /\ \E ok \in BOOLEAN :
        IF ok
        THEN /\ db' = [db EXCEPT ![r] = update_investigation(db[r], CompletedKwargs(result[r]))]
             /\ runpc' = [runpc EXCEPT ![r] = "ref_done"]
             /\ UNCHANGED runErr
        ELSE /\ runErr' = [runErr EXCEPT ![r] = "db error"]
             /\ runpc' = [runpc EXCEPT ![r] = "upd_fail"]
             /\ UNCHANGED db
    /\ UNCHANGED <<locked, waiters, current_id, stored, callpc, result>>
    /\ UNCHANGED <<wfVars, sideVars>>

\* ... refresh returns: the try block ends, finally and release follow
RunCompletedRefreshOk(r) ==
    /\ runpc[r] = "ref_done"
    /\ RunExit(r, "done")
    /\ UNCHANGED <<db, stored, callpc, runErr, result>>
    /\ UNCHANGED <<wfVars, sideVars>>

\* ... refresh raises after the commit: the except handler is entered
RunCompletedRefreshRaises(r) ==
    /\ runpc[r] = "ref_done"
    /\ runErr' = [runErr EXCEPT ![r] = "db error"]
    /\ runpc' = [runpc EXCEPT ![r] = "upd_fail"]
    /\ UNCHANGED <<locked, waiters, current_id, db, stored, callpc, result>>
    /\ UNCHANGED <<wfVars, sideVars>>

\* except handler, update_investigation(status="failed", ...): commit
\* returns, or raises and the exception leaves _run through finally
RunFailedCommit(r) ==
    /\ runpc[r] = "upd_fail"
    /\ \E ok \in BOOLEAN :
        IF ok
        THEN /\ db' = [db EXCEPT ![r] = update_investigation(db[r], FailedKwargs(runErr[r]))]
             /\ runpc' = [runpc EXCEPT ![r] = "ref_fail"]
             /\ UNCHANGED <<locked, waiters, current_id>>
        ELSE /\ RunExit(r, "crashed")
             /\ UNCHANGED db
    /\ UNCHANGED <<stored, callpc, runErr, result>>
    /\ UNCHANGED <<wfVars, sideVars>>

\* ... refresh returns or raises; either way finally and release follow
RunFailedRefresh(r) ==
    /\ runpc[r] = "ref_fail"
    /\ \E ok \in BOOLEAN : RunExit(r, IF ok THEN "done" ELSE "crashed")
    /\ UNCHANGED <<db, stored, callpc, runErr, result>>
    /\ UNCHANGED <<wfVars, sideVars>>

----------------------------------------------------------------------------
(* Token-bucket rate limiter (src/core/rate_limiter.py)                     *)
(*                                                                          *)
(* Time is counted in whole seconds and tokens in units of 1/TokenScale of  *)
(* a token, so that the refill of one second is a whole number of units for *)
(* the modelled rates.  Each await of acquire() is a step boundary: taking  *)
(* the lock, and the sleep of the wait phase.                               *)

\* number of concurrent acquire() callers
MaxCallers == 3

\* last second the clock reaches
MaxTime == 3

\* largest burst_size of a directly constructed limiter
MaxBurst == 2

\* token units per token (a token is 1.0 in the code)
TokenScale == 2

\* default arguments of get_rate_limiter and of the dataclass
DefaultRequestsPerMinute == 30

DefaultBurstSize == 5

\* a non-default configuration of the two Settings fields
ConfiguredRequestsPerMinute == 60

ConfiguredBurstSize == 10

Callers == 1..MaxCallers

\* requests_per_minute values of the limiters under study
Rates == {DefaultRequestsPerMinute, ConfiguredRequestsPerMinute}

BurstSizes == 1..MaxBurst

\* Settings.rate_limit_requests_per_minute / rate_limit_burst_size
RateSettings ==
    {[rate_limit_requests_per_minute |-> DefaultRequestsPerMinute,
      rate_limit_burst_size |-> DefaultBurstSize],
     [rate_limit_requests_per_minute |-> ConfiguredRequestsPerMinute,
      rate_limit_burst_size |-> ConfiguredBurstSize]}

Min(a, b) == IF a <= b THEN a ELSE b

\* TokenBucketRateLimiter(requests_per_minute=r, burst_size=b); origin tells
\* whether get_rate_limiter built it or a caller constructed it directly
TokenBucketRateLimiter(r, b, o) ==
    [requests_per_minute |-> r, burst_size |-> b, origin |-> o]

\* __post_init__ starting with an empty bucket
InitialTokensEmpty(b) == 0

\* __post_init__: _tokens = float(burst_size)
InitialTokens(b) == b * TokenScale

\* wait_time = 60.0 / requests_per_minute, in seconds
WaitTime(lim) == 60 \div lim.requests_per_minute

\* refill = elapsed * (requests_per_minute / 60.0), in token units
RefillAmount(lim, elapsed) ==
    (elapsed * lim.requests_per_minute * TokenScale) \div 60

\* _refill without the min(..., burst_size) cap
refill_uncapped(lim, t, last, n) == t + RefillAmount(lim, n - last)

\* _refill adding nothing
refill_frozen(lim, t, last, n) == t

\* _refill: the token count after refilling at time n
refill(lim, t, last, n) ==
    Min(t + RefillAmount(lim, n - last), lim.burst_size * TokenScale)

\* the caller's first statement: rate_limiter = get_rate_limiter(), called
\* with no arguments at every call site
GetRateLimiter(c) ==
    /\ rlpc[c] = "idle"
    /\ rlpc' = [rlpc EXCEPT ![c] = "got"]
    /\ IF limiter = Null
       THEN /\ limiter' = Some(TokenBucketRateLimiter(DefaultRequestsPerMinute,
                                                      DefaultBurstSize,
                                                      "get_rate_limiter"))
            /\ tokens' = InitialTokens(DefaultBurstSize)
            /\ last_refill' = now
            /\ born' = now
       ELSE UNCHANGED <<limiter, tokens, last_refill, born>>
    /\ UNCHANGED <<wfVars, runnerVars, apiVars, extraVars, callVars>>
    /\ UNCHANGED <<rate_settings, rlLocked, rlWaiters, rlHolder, now, wakeAt,
                   acquired>>

\* async with self._lock, lock free and nobody queued
EnterFree(c) ==
    /\ rlpc[c] = "got"
    /\ ~rlLocked /\ rlWaiters = <<>>
    /\ rlLocked' = TRUE
    /\ rlHolder' = c
    /\ rlpc' = [rlpc EXCEPT ![c] = "holding"]
    /\ UNCHANGED <<wfVars, runnerVars, apiVars, extraVars, callVars>>
    /\ UNCHANGED <<rate_settings, limiter, tokens, last_refill, born,
                   rlWaiters, now, wakeAt, acquired>>

\* async with self._lock, lock taken: the caller queues
EnterWait(c) ==
    /\ rlpc[c] = "got"
    /\ rlLocked \/ rlWaiters # <<>>
    /\ rlWaiters' = Append(rlWaiters, c)
    /\ rlpc' = [rlpc EXCEPT ![c] = "lockwait"]
    /\ UNCHANGED <<wfVars, runnerVars, apiVars, extraVars, callVars>>
    /\ UNCHANGED <<rate_settings, limiter, tokens, last_refill, born,
                   rlLocked, rlHolder, now, wakeAt, acquired>>

\* the first queued caller is woken by a release and takes the lock
LimiterWake(c) ==
    /\ rlpc[c] = "lockwait"
    /\ ~rlLocked
    /\ rlWaiters # <<>> /\ Head(rlWaiters) = c
    /\ rlLocked' = TRUE
    /\ rlHolder' = c
    /\ rlWaiters' = Tail(rlWaiters)
    /\ rlpc' = [rlpc EXCEPT ![c] = "holding"]
    /\ UNCHANGED <<wfVars, runnerVars, apiVars, extraVars, callVars>>
    /\ UNCHANGED <<rate_settings, limiter, tokens, last_refill, born, now,
                   wakeAt, acquired>>

\* the wait phase entered without releasing the lock
SleepHoldingLock(c) ==
    /\ rlpc[c] = "holding"
    /\ LET t == refill(limiter[1], tokens, last_refill, now) IN
        /\ t < TokenScale
        /\ tokens' = t
        /\ last_refill' = now
    /\ wakeAt' = [wakeAt EXCEPT ![c] = now + WaitTime(limiter[1])]
    /\ rlpc' = [rlpc EXCEPT ![c] = "sleeping"]
    /\ UNCHANGED <<wfVars, runnerVars, apiVars, extraVars, callVars>>
    /\ UNCHANGED <<rate_settings, limiter, born, rlLocked, rlHolder,
                   rlWaiters, now, acquired>>

\* _refill(); _tokens < 1.0: release the lock and sleep for wait_time
Sleep(c) ==
    /\ rlpc[c] = "holding"
    /\ LET t == refill(limiter[1], tokens, last_refill, now) IN
        /\ t < TokenScale
        /\ tokens' = t
        /\ last_refill' = now
    /\ rlLocked' = FALSE
    /\ rlHolder' = 0
    /\ wakeAt' = [wakeAt EXCEPT ![c] = now + WaitTime(limiter[1])]
    /\ rlpc' = [rlpc EXCEPT ![c] = "sleeping"]
    /\ UNCHANGED <<wfVars, runnerVars, apiVars, extraVars, callVars>>
    /\ UNCHANGED <<rate_settings, limiter, born, rlWaiters, now, acquired>>

\* the deduction made without re-testing the token count
ConsumeUnchecked(c) ==
    /\ rlpc[c] = "holding"
    /\ LET t == refill(limiter[1], tokens, last_refill, now) IN
        /\ tokens' = t - TokenScale
        /\ last_refill' = now
    /\ rlLocked' = FALSE
    /\ rlHolder' = 0
    /\ acquired' = acquired + 1
    /\ rlpc' = [rlpc EXCEPT ![c] = "done"]
    /\ UNCHANGED <<wfVars, runnerVars, apiVars, extraVars, callVars>>
    /\ UNCHANGED <<rate_settings, limiter, born, rlWaiters, now, wakeAt>>

\* _refill(); _tokens >= 1.0: deduct one token, leave the with block
\* (release) and return
Consume(c) ==
    /\ rlpc[c] = "holding"
    /\ LET t == refill(limiter[1], tokens, last_refill, now) IN
        /\ t >= TokenScale
        /\ tokens' = t - TokenScale
        /\ last_refill' = now
    /\ rlLocked' = FALSE
    /\ rlHolder' = 0
    /\ acquired' = acquired + 1
    /\ rlpc' = [rlpc EXCEPT ![c] = "done"]
    /\ UNCHANGED <<wfVars, runnerVars, apiVars, extraVars, callVars>>
    /\ UNCHANGED <<rate_settings, limiter, born, rlWaiters, now, wakeAt>>

\* the sleep is over: await self._lock.acquire(), lock free
ResumeFree(c) ==
    /\ rlpc[c] = "sleeping"
    /\ now >= wakeAt[c]
    /\ ~rlLocked /\ rlWaiters = <<>>
    /\ rlLocked' = TRUE
    /\ rlHolder' = c
    /\ rlpc' = [rlpc EXCEPT ![c] = "holding"]
    /\ UNCHANGED <<wfVars, runnerVars, apiVars, extraVars, callVars>>
    /\ UNCHANGED <<rate_settings, limiter, tokens, last_refill, born,
                   rlWaiters, now, wakeAt, acquired>>

\* the sleep is over: await self._lock.acquire(), lock taken
ResumeWait(c) ==
    /\ rlpc[c] = "sleeping"
    /\ now >= wakeAt[c]
    /\ rlLocked \/ rlWaiters # <<>>
    /\ rlWaiters' = Append(rlWaiters, c)
    /\ rlpc' = [rlpc EXCEPT ![c] = "lockwait"]
    /\ UNCHANGED <<wfVars, runnerVars, apiVars, extraVars, callVars>>
    /\ UNCHANGED <<rate_settings, limiter, tokens, last_refill, born,
                   rlLocked, rlHolder, now, wakeAt, acquired>>

\* the tokens_remaining property: _refill() without the lock
TokensRemaining ==
    /\ limiter # Null
    /\ now > last_refill
    /\ tokens' = refill(limiter[1], tokens, last_refill, now)
    /\ last_refill' = now
    /\ UNCHANGED <<wfVars, runnerVars, apiVars, extraVars, callVars>>
    /\ UNCHANGED <<rate_settings, limiter, born, rlLocked, rlWaiters,
                   rlHolder, now, rlpc, wakeAt, acquired>>

\* time.monotonic() advances by one second
Tick ==
    /\ now < MaxTime
    /\ now' = now + 1
    /\ UNCHANGED <<wfVars, runnerVars, apiVars, extraVars, callVars>>
    /\ UNCHANGED <<rate_settings, limiter, tokens, last_refill, born,
                   rlLocked, rlWaiters, rlHolder, rlpc, wakeAt, acquired>>

\* time.monotonic() advances by one second beyond MaxTime: the clock reading
\* stays at MaxTime and every recorded instant moves one second into the
\* past.  Only differences to `now` are ever used; an instant is not moved
\* further back than the point where moving it changes nothing (a sleep
\* already over, a bucket already full at the next refill).
TickShift ==
    /\ now = MaxTime
    /\ limiter # Null
    /\ LET lim == limiter[1]
           full == (lim.burst_size * 60 + lim.requests_per_minute - 1)
                       \div lim.requests_per_minute
       IN  last_refill' = IF last_refill - 1 >= now - full
                          THEN last_refill - 1 ELSE last_refill
    /\ wakeAt' = [c \in Callers |->
                    IF wakeAt[c] > 0 THEN wakeAt[c] - 1 ELSE 0]
    /\ born' = IF born > 0 THEN born - 1 ELSE 0
    /\ UNCHANGED <<wfVars, runnerVars, apiVars, extraVars, callVars>>
    /\ UNCHANGED <<rate_settings, limiter, tokens, rlLocked, rlWaiters,
                   rlHolder, now, rlpc, acquired>>

\* no limiter constructed yet (_limiter = None), no caller started
LimiterIdle ==
    /\ limiter = Null
    /\ tokens = 0
    /\ last_refill = 0
    /\ born = 0
    /\ rlLocked = FALSE
    /\ rlWaiters = <<>>
    /\ rlHolder = 0
    /\ now = 0
    /\ rlpc = [c \in Callers |-> "idle"]
    /\ wakeAt = [c \in Callers |-> 0]
    /\ acquired = 0

----------------------------------------------------------------------------
(* HTTP routes: alert trigger (src/api/routes/alerts.py) and report export  *)
(* (src/api/routes/reports.py), on top of the runner and its records       *)

\* MockDataGenerator.available_scenarios(): the keys of SCENARIOS
RegisteredScenarios ==
    {"latent_config_bug", "memory_leak", "cascading_failure", "traffic_spike"}

\* the members of the Severity enumeration
Severities == {"critical", "high", "medium", "low"}

\* scenario_type values a request may carry: a registered and an unknown one
ScenarioInputs == {"latent_config_bug", "nonexistent"}

\* severity values a request may carry: a member of Severity and another
\* string (the request schema accepts any string)
SeverityInputs == {"critical", "bogus"}

\* TriggerAlertRequest
TriggerAlertRequest(sc, sev) == [scenario_type |-> sc, severity |-> sev]

\* no response sent yet
NoResponse == [code |-> 0, investigation_id |-> 0, status |-> "", detail |-> FALSE]

\* HTTPException(status_code, detail=...): a JSON body with a detail message
HTTPException(code) ==
    [code |-> code, investigation_id |-> 0, status |-> "", detail |-> TRUE]

\* an exception no handler catches: the framework answers 500 with the
\* plain text "Internal Server Error"
ServerError ==
    [code |-> 500, investigation_id |-> 0, status |-> "", detail |-> FALSE]

\* InvestigationCreatedResponse(investigation_id=id, status="detecting"),
\* sent with the route's status_code 201
InvestigationCreatedResponse(id) ==
    [code |-> 201, investigation_id |-> id, status |-> "detecting", detail |-> FALSE]

\* trigger_alert: scenario_type is not registered -> 400, the runner is not
\* called
AlertUnknownScenario(c) ==
    /\ callpc[c] = "idle"
    /\ NextCall(c)
    /\ \E sc \in ScenarioInputs \ RegisteredScenarios, sev \in SeverityInputs :
        alertReq' = [alertReq EXCEPT ![c] = Some(TriggerAlertRequest(sc, sev))]
    /\ alertResp' = [alertResp EXCEPT ![c] = HTTPException(400)]
    /\ callpc' = [callpc EXCEPT ![c] = "bad_request"]
    /\ UNCHANGED <<locked, waiters, current_id, db, stored, runpc, runErr, result>>
    /\ UNCHANGED <<wfVars, limiterVars, extraVars, callVars, reportResp>>

\* trigger_alert: start_investigation raises InvestigationAlreadyRunning -> 409
AlertConflict(c) ==
    /\ callpc[c] = "idle"
    /\ NextCall(c)
    /\ locked
    /\ \E sc \in ScenarioInputs \cap RegisteredScenarios, sev \in SeverityInputs :
        alertReq' = [alertReq EXCEPT ![c] = Some(TriggerAlertRequest(sc, sev))]
    /\ alertResp' = [alertResp EXCEPT ![c] = HTTPException(409)]
    /\ callpc' = [callpc EXCEPT ![c] = "rejected"]
    /\ UNCHANGED <<locked, waiters, current_id, db, stored, runpc, runErr, result>>
    /\ UNCHANGED <<wfVars, limiterVars, extraVars, callVars, reportResp>>

\* trigger_alert: start_investigation passes the lock test and the scenario
\* generator evaluates Severity(severity), which raises ValueError for a
\* string that is no member; the route catches only
\* InvestigationAlreadyRunning
AlertSeverityRaises(c) ==
    /\ callpc[c] = "idle"
    /\ NextCall(c)
    /\ ~locked
    /\ \E sc \in ScenarioInputs \cap RegisteredScenarios,
          sev \in SeverityInputs \ Severities :
        alertReq' = [alertReq EXCEPT ![c] = Some(TriggerAlertRequest(sc, sev))]
    /\ alertResp' = [alertResp EXCEPT ![c] = ServerError]
    /\ callpc' = [callpc EXCEPT ![c] = "invalid"]
    /\ UNCHANGED <<locked, waiters, current_id, db, stored, runpc, runErr, result>>
    /\ UNCHANGED <<wfVars, limiterVars, extraVars, callVars, reportResp>>

\* trigger_alert: start_investigation passes the lock test, the data set is
\* generated and the call is suspended in create_investigation
AlertBegin(c) ==
    /\ callpc[c] = "idle"
    /\ NextCall(c)
    /\ ~locked
    /\ \E sc \in ScenarioInputs \cap RegisteredScenarios,
          sev \in SeverityInputs \cap Severities :
        alertReq' = [alertReq EXCEPT ![c] = Some(TriggerAlertRequest(sc, sev))]
    /\ callpc' = [callpc EXCEPT ![c] = "creating"]
    /\ UNCHANGED <<locked, waiters, current_id, db, stored, runpc, runErr, result>>
    /\ UNCHANGED <<wfVars, limiterVars, extraVars, callVars, alertResp, reportResp>>

\* trigger_alert: start_investigation returned the id -> 201; or
\* create_investigation raised, which nothing catches -> 500
AlertRespond(c) ==
    /\ callpc[c] \in {"accepted", "db_error"}
    /\ alertReq[c] # Null
    /\ alertResp[c] = NoResponse
    /\ alertResp' = [alertResp EXCEPT ![c] =
                        IF callpc[c] = "accepted"
                        THEN InvestigationCreatedResponse(c)
                        ELSE ServerError]
    /\ UNCHANGED <<wfVars, runnerVars, limiterVars, extraVars, callVars, alertReq, reportResp>>

\* ids a report may be requested for: 0 is an id that was never issued
ReportIds == {0} \cup Calls

\* _require_finished letting every status through
require_finished_any(rec) == TRUE

\* _require_finished: the status is completed or failed
require_finished(rec) == rec.status \in {"completed", "failed"}

\* status code of a report request up to the rendering
ReportCode(id) ==
    IF id \notin stored THEN 404
    ELSE IF ~require_finished(db[id]) THEN 400
    ELSE 200

\* GET /investigations/{id}/report
ReportMarkdown(id) ==
    /\ reportResp' = Some([id |-> id, kind |-> "markdown", code |-> ReportCode(id)])
    /\ UNCHANGED <<wfVars, runnerVars, limiterVars, extraVars, callVars, alertReq, alertResp>>

\* GET /investigations/{id}/report/pdf: as above, and export_pdf may raise
\* RuntimeError when the conversion reports errors
ReportPdf(id) ==
    /\ \E ok \in BOOLEAN :
        reportResp' = Some([id |-> id, kind |-> "pdf",
                            code |-> IF ReportCode(id) = 200 /\ ~ok
                                     THEN 500 ELSE ReportCode(id)])
    /\ UNCHANGED <<wfVars, runnerVars, limiterVars, extraVars, callVars, alertReq, alertResp>>

\* no request made yet
ApiIdle ==
    /\ alertReq = [c \in Calls |-> Null]
    /\ alertResp = [c \in Calls |-> NoResponse]
    /\ reportResp = Null

----------------------------------------------------------------------------
(* Data access layer (src/db/repository.py), called directly as the        *)
(* repository tests do: one caller, one operation at a time                *)

\* keyword arguments an update may carry: recognised columns, a key that is
\* no attribute of the record, and both together
UpdateKwargs ==
    {InvestigatingKwargs,
     FailedKwargs(ErrText),
     [nonexistent_field |-> "x"],
     [status |-> "completed", nonexistent_field |-> "x"]}

\* ids an operation may name: 0 is an id that is never created
RepoIds == {0} \cup Calls

NoCall == [op |-> "none", id |-> 0, kwargs |-> InvestigatingKwargs]

\* create_investigation(id): session.add, commit (which may raise), refresh
RepoCreate(id) ==
    /\ repopc = "idle"
    /\ id \in Calls \ stored
    /\ repoCall' = [op |-> "create", id |-> id, kwargs |-> InvestigatingKwargs]
    /\ \E ok \in BOOLEAN :
        IF ok
        THEN /\ db' = [db EXCEPT ![id] = NewRecord(id)]
             /\ stored' = stored \cup {id}
             /\ repoRet' = "record"
        ELSE /\ repoRet' = "raised"
             /\ UNCHANGED <<db, stored>>
    /\ UNCHANGED repopc
    /\ UNCHANGED <<locked, waiters, current_id, callpc, runpc, runErr, result>>
    /\ UNCHANGED <<wfVars, limiterVars, apiVars, callVars>>

\* update_investigation(id, **kwargs): session.get finds no row, returns None
RepoUpdateAbsent(id, kw) ==
    /\ repopc = "idle"
    /\ id \notin stored
    /\ repoCall' = [op |-> "update", id |-> id, kwargs |-> kw]
    /\ repoRet' = "None"
    /\ UNCHANGED repopc
    /\ UNCHANGED <<wfVars, runnerVars, limiterVars, apiVars, callVars>>

\* update_investigation(id, **kwargs): session.get finds the row; the
\* setattr loop runs on the session's copy; suspended in commit
RepoUpdateFound(id, kw) ==
    /\ repopc = "idle"
    /\ id \in stored
    /\ repoCall' = [op |-> "update", id |-> id, kwargs |-> kw]
    /\ repoRet' = "pending"
    /\ repopc' = "commit"
    /\ UNCHANGED <<wfVars, runnerVars, limiterVars, apiVars, callVars>>

\* session.commit() writes the changed record, or raises
RepoUpdateCommit ==
    /\ repopc = "commit"
    /\ \E ok \in BOOLEAN :
        IF ok
        THEN /\ db' = [db EXCEPT ![repoCall.id] =
                          update_investigation(db[repoCall.id], repoCall.kwargs)]
             /\ repopc' = "refresh"
             /\ UNCHANGED repoRet
        ELSE /\ repoRet' = "raised"
             /\ repopc' = "idle"
             /\ UNCHANGED db
    /\ UNCHANGED repoCall
    /\ UNCHANGED <<locked, waiters, current_id, stored, callpc, runpc, runErr, result>>
    /\ UNCHANGED <<wfVars, limiterVars, apiVars, callVars>>

\* session.refresh(record) returns (the record is returned) or raises
RepoUpdateRefresh ==
    /\ repopc = "refresh"
    /\ \E ok \in BOOLEAN : repoRet' = IF ok THEN "record" ELSE "raised"
    /\ repopc' = "idle"
    /\ UNCHANGED repoCall
    /\ UNCHANGED <<wfVars, runnerVars, limiterVars, apiVars, callVars>>

\* no repository operation made yet
RepoIdle ==
    /\ repopc = "idle"
    /\ repoCall = NoCall
    /\ repoRet = "none"

----------------------------------------------------------------------------
(* Service topology: src/data/topology.py *)

\* SERVICE_TOPOLOGY: service name -> depends_on, in declaration order
SERVICE_TOPOLOGY ==
    [n \in {"api-gateway", "checkout-service", "payment-gateway",
            "inventory-service", "user-auth", "notification-service",
            "postgres-db", "redis-cache"} |->
        CASE n = "api-gateway" ->
                <<"checkout-service", "user-auth", "inventory-service">>
          [] n = "checkout-service" ->
                <<"payment-gateway", "inventory-service", "postgres-db",
                  "redis-cache">>
          [] n = "payment-gateway" -> <<"postgres-db">>
          [] n = "inventory-service" -> <<"postgres-db", "redis-cache">>
          [] n = "user-auth" -> <<"postgres-db", "redis-cache">>
          [] n = "notification-service" -> <<"redis-cache">>
          [] OTHER -> <<>>]

\* ALL_SERVICE_NAMES, in declaration order
ALL_SERVICE_NAMES ==
    <<"api-gateway", "checkout-service", "payment-gateway",
      "inventory-service", "user-auth", "notification-service",
      "postgres-db", "redis-cache">>

\* names a caller may pass: the eight services and one that is not a key
ServiceArgs == DOMAIN SERVICE_TOPOLOGY \cup {"nonexistent"}

\* get_dependents keeping only the services whose first dependency is the
\* one asked for
get_dependents_first(service_name) ==
    SelectSeq(ALL_SERVICE_NAMES,
              LAMBDA name : /\ SERVICE_TOPOLOGY[name] # <<>>
                            /\ SERVICE_TOPOLOGY[name][1] = service_name)

\* get_dependents(service_name): the keys, in dict order, whose depends_on
\* contains service_name
get_dependents(service_name) ==
    SelectSeq(ALL_SERVICE_NAMES,
              LAMBDA name : \E i \in DOMAIN SERVICE_TOPOLOGY[name] :
                                SERVICE_TOPOLOGY[name][i] = service_name)

\* get_dependencies(service_name): list(info.depends_on), [] for a name
\* that is not a key
get_dependencies(service_name) ==
    IF service_name \notin DOMAIN SERVICE_TOPOLOGY THEN <<>>
    ELSE SERVICE_TOPOLOGY[service_name]

\* one call of either function
TopoQuery(fn, arg) ==
    /\ topoCall' = [fn |-> fn, arg |-> arg]
    /\ topoRet' = IF fn = "get_dependents" THEN get_dependents(arg)
                  ELSE get_dependencies(arg)
    /\ UNCHANGED walk
    /\ UNCHANGED <<wfVars, runnerVars, limiterVars, apiVars, extraVars>>
    /\ UNCHANGED <<rbpc, rbService, rbOutcome, rbResult, rbPosts>>
    /\ UNCHANGED <<dwData, dwQuery, dwRet>>

\* a traversal starts at service n, or follows one depends_on edge from the
\* service it stands on; it stops after more steps than there are services
TopoWalk(n) ==
    /\ \/ /\ n \in DOMAIN SERVICE_TOPOLOGY
          /\ walk' = <<n>>
          /\ UNCHANGED <<topoCall, topoRet>>
       \/ /\ walk # <<>>
          /\ Len(walk) <= Len(ALL_SERVICE_NAMES)
          /\ topoCall' = [fn |-> "get_dependencies", arg |-> walk[Len(walk)]]
          /\ topoRet' = get_dependencies(walk[Len(walk)])
          /\ \E i \in DOMAIN topoRet' : n = topoRet'[i]
          /\ walk' = Append(walk, n)
    /\ UNCHANGED <<wfVars, runnerVars, limiterVars, apiVars, extraVars>>
    /\ UNCHANGED <<rbpc, rbService, rbOutcome, rbResult, rbPosts>>
    /\ UNCHANGED <<dwData, dwQuery, dwRet>>

NextTopo ==
    \/ \E fn \in {"get_dependents", "get_dependencies"}, arg \in ServiceArgs :
          TopoQuery(fn, arg)
    \/ \E n \in ServiceArgs : TopoWalk(n)

----------------------------------------------------------------------------
(* Deployment evidence: src/data/scenarios.py, src/agents/deploy_agent.py,  *)
(* src/agents/tools.py.  Timestamps are whole minutes relative to the       *)
(* incident time of the generated data.                                     *)

\* Settings.investigation_time_window_minutes default
DefaultTimeWindowMinutes == 60

\* BaseScenario.generate(seed, severity, incident_time): the alert and the
\* deployment events of the data set
generate(scenario_type, severity, incident_time) ==
    [scenario_name |-> scenario_type,
     alert |->
        [service |-> CASE scenario_type = "latent_config_bug" -> "checkout-service"
                       [] scenario_type = "memory_leak" -> "inventory-service"
                       [] OTHER -> "api-gateway",
         severity |-> severity,
         timestamp |-> IF scenario_type = "cascading_failure"
                       THEN incident_time + 2 ELSE incident_time],
     deployments |->
        CASE scenario_type = "latent_config_bug" ->
                <<[timestamp |-> incident_time - 15, service |-> "checkout-service",
                   change_type |-> "config_change"]>>
          [] scenario_type = "memory_leak" ->
                <<[timestamp |-> incident_time - 120, service |-> "inventory-service",
                   change_type |-> "code_deploy"]>>
          [] OTHER -> <<>>]

\* get_deployments(mock_data, service, time_start, time_end): the events it
\* lists; service "" is None; both ends of the window are inclusive
get_deployments(mock_data, service, time_start, time_end) ==
    SelectSeq(mock_data.deployments,
              LAMBDA e : /\ (service # "" => e.service = service)
                         /\ e.timestamp >= time_start
                         /\ e.timestamp <= time_end)

\* MockDataGenerator.generate(scenario_type, severity=severity)
GenerateData(sc, sev) ==
    /\ dwData' = Some(generate(sc, sev, 0))
    /\ dwQuery' = Null
    /\ dwRet' = <<>>
    /\ UNCHANGED <<wfVars, runnerVars, limiterVars, apiVars, extraVars>>
    /\ UNCHANGED <<rbpc, rbService, rbOutcome, rbResult, rbPosts>>
    /\ UNCHANGED <<topoCall, topoRet, walk>>

\* deploy_agent_node gathering its evidence with a lookback of w minutes:
\* the call over all services (bySvc false) or the one for the alerted
\* service
DeployGather(w, bySvc) ==
    /\ dwData # Null
    /\ LET alert == dwData[1].alert
           time_end == alert.timestamp + 5
           time_start == alert.timestamp - w
           service == IF bySvc THEN alert.service ELSE ""
       IN  /\ dwQuery' = Some([window_minutes |-> w, service |-> service,
                               time_start |-> time_start,
                               time_end |-> time_end])
           /\ dwRet' = get_deployments(dwData[1], service, time_start, time_end)
    /\ UNCHANGED dwData
    /\ UNCHANGED <<wfVars, runnerVars, limiterVars, apiVars, extraVars>>
    /\ UNCHANGED <<rbpc, rbService, rbOutcome, rbResult, rbPosts>>
    /\ UNCHANGED <<topoCall, topoRet, walk>>

NextDeploy ==
    \/ \E sc \in RegisteredScenarios, sev \in Severities : GenerateData(sc, sev)
    \/ \E w \in 1..(2 * DefaultTimeWindowMinutes), bySvc \in BOOLEAN :
          DeployGather(w, bySvc)

----------------------------------------------------------------------------
(* Remediation connector called directly: src/remediation/github_actions.py *)

\* trigger_rollback(service) up to the first await: a missing token or
\* repository returns at once, otherwise the POST is sent
TriggerRollback(svc) ==
    /\ rbpc \in {"idle", "done"}
    /\ rbPosts < MaxCalls
    /\ rbService' = svc
    /\ rbOutcome' = "none"
    /\ IF ActCallsConnector(settings)
       THEN /\ rbpc' = "post"
            /\ rbPosts' = rbPosts + 1
            /\ rbResult' = Null
       ELSE /\ rbpc' = "done"
            /\ rbResult' = Some(trigger_rollback(settings, "204"))
            /\ UNCHANGED rbPosts
    /\ UNCHANGED <<wfVars, runnerVars, limiterVars, apiVars, extraVars>>
    /\ UNCHANGED <<topoCall, topoRet, walk, dwData, dwQuery, dwRet>>

\* the POST answers with a status or fails with an httpx.HTTPError
RollbackResponse(rb) ==
    /\ rbpc = "post"
    /\ rbpc' = "done"
    /\ rbOutcome' = rb
    /\ rbResult' = Some(trigger_rollback(settings, rb))
    /\ UNCHANGED <<rbService, rbPosts>>
    /\ UNCHANGED <<wfVars, runnerVars, limiterVars, apiVars, extraVars>>
    /\ UNCHANGED <<topoCall, topoRet, walk, dwData, dwQuery, dwRet>>

\* no connector call made yet
RollbackIdle ==
    /\ rbpc = "idle"
    /\ rbService = ""
    /\ rbOutcome = "none"
    /\ rbResult = Null
    /\ rbPosts = 0

NextRollback ==
    \/ \E i \in DOMAIN ALL_SERVICE_NAMES : TriggerRollback(ALL_SERVICE_NAMES[i])
    \/ \E rb \in RollbackOutcomes : RollbackResponse(rb)


----------------------------------------------------------------------------
(* Specifications *)

\* the parts of the model a specification does not exercise, at rest
ExtraIdle ==
    /\ RepoIdle
    /\ RollbackIdle
    /\ topoCall = [fn |-> "none", arg |-> ""]
    /\ topoRet = <<>>
    /\ walk = <<>>
    /\ dwData = Null
    /\ dwQuery = Null
    /\ dwRet = <<>>

\* the Settings defaults of the two rate-limit fields
DefaultRateSettings ==
    [rate_limit_requests_per_minute |-> DefaultRequestsPerMinute,
     rate_limit_burst_size |-> DefaultBurstSize]

DefaultSettings ==
    [threshold |-> DefaultThreshold, github_token |-> FALSE,
     github_rollback_repo |-> FALSE]

WfIdle ==
    /\ wfpc = "running"
    /\ wfState = InitialState
    /\ active = {"detect"}
    /\ ranNow = {}
    /\ pending = <<>>
    /\ history = <<>>
    /\ outcome = [n \in Nodes |-> NoOutcome]
    /\ rollbackCalls = 0

RunnerIdle ==
    /\ locked = FALSE
    /\ waiters = <<>>
    /\ current_id = 0
    /\ db = [c \in Calls |-> NewRecord(c)]
    /\ stored = {}
    /\ callpc = [c \in Calls |-> "idle"]
    /\ runpc = [c \in Calls |-> "none"]
    /\ runErr = [c \in Calls |-> ""]
    /\ result = [c \in Calls |-> InitialState]

\* one InvestigationRunner after construction, default settings
Init ==
    /\ settings = DefaultSettings
    /\ WfIdle
    /\ RunnerIdle
    /\ rate_settings = DefaultRateSettings
    /\ LimiterIdle
    /\ ApiIdle
    /\ ExtraIdle

Next ==
    \/ \E c \in Calls : StartRejected(c)
    \/ \E c \in Calls : StartInvalid(c)
    \/ \E c \in Calls : StartBegin(c)
    \/ \E c \in Calls : CreateCommit(c)
    \/ \E c \in Calls : CreateRefresh(c)
    \/ \E r \in Calls : RunAcquire(r)
    \/ \E r \in Calls : RunWake(r)
    \/ \E r \in Calls : RunInvestigatingCommit(r)
    \/ \E r \in Calls : RunInvestigatingRefresh(r)
    \/ \E r \in Calls : RunInvokeReturns(r)
    \/ \E r \in Calls : RunInvokeRaises(r)
    \/ \E r \in Calls : RunCompletedCommit(r)
    \/ \E r \in Calls : RunCompletedRefreshOk(r)
    \/ \E r \in Calls : RunCompletedRefreshRaises(r)
    \/ \E r \in Calls : RunFailedCommit(r)
    \/ \E r \in Calls : RunFailedRefresh(r)

Spec == Init /\ [][Next]_vars

\* the steps of background run r
RunStep(r) ==
    \/ RunAcquire(r)
    \/ RunWake(r)
    \/ RunInvestigatingCommit(r)
    \/ RunInvestigatingRefresh(r)
    \/ RunInvokeReturns(r)
    \/ RunInvokeRaises(r)
    \/ RunCompletedCommit(r)
    \/ RunCompletedRefreshOk(r)
    \/ RunCompletedRefreshRaises(r)
    \/ RunFailedCommit(r)
    \/ RunFailedRefresh(r)

\* the event loop runs every task that is ready, and every awaited database
\* call and the workflow return or raise
SpecFair ==
    /\ Spec
    /\ \A c \in Calls : WF_vars(CreateCommit(c) \/ CreateRefresh(c))
    /\ \A r \in Calls : WF_vars(RunStep(r))

\* one direct graph.ainvoke(initial_state), as the command-line entry point
\* and the graph tests do, under any configured threshold and remediation
\* settings
InitWf ==
    /\ settings \in [threshold : Thresholds, github_token : BOOLEAN,
                     github_rollback_repo : BOOLEAN]
    /\ WfIdle
    /\ RunnerIdle
    /\ rate_settings = DefaultRateSettings
    /\ LimiterIdle
    /\ ApiIdle
    /\ ExtraIdle

NextWf ==
    \/ Detect
    \/ Plan
    \/ LogsAgent
    \/ MetricsAgent
    \/ DeployAgent
    \/ Decide
    \/ Act
    \/ Report

SpecWf == InitWf /\ [][NextWf]_vars

\* the deploy agent gathering evidence on generated data, under any lookback
SpecDeploy == Init /\ [][NextDeploy]_vars

\* topology queries and traversals in any order
SpecTopo == Init /\ [][NextTopo]_vars

\* direct calls of the connector under any configured settings
SpecRollback == InitWf /\ [][NextRollback]_vars

\* one limiter and MaxCallers callers of acquire(): the limiter is either
\* constructed directly (as the unit tests do) at time 0, or left to
\* get_rate_limiter; the two rate-limit settings take any configured value
InitRL ==
    /\ settings = DefaultSettings
    /\ WfIdle
    /\ RunnerIdle
    /\ rate_settings \in RateSettings
    /\ \/ LimiterIdle
       \/ \E r \in Rates, b \in BurstSizes :
            /\ limiter = Some(TokenBucketRateLimiter(r, b, "direct"))
            /\ tokens = InitialTokens(b)
            /\ last_refill = 0
            /\ born = 0
            /\ rlLocked = FALSE
            /\ rlWaiters = <<>>
            /\ rlHolder = 0
            /\ now = 0
            /\ rlpc = [c \in Callers |-> "idle"]
            /\ wakeAt = [c \in Callers |-> 0]
            /\ acquired = 0
    /\ ApiIdle
    /\ ExtraIdle

NextRL ==
    \/ \E c \in Callers : GetRateLimiter(c)
    \/ \E c \in Callers : EnterFree(c)
    \/ \E c \in Callers : EnterWait(c)
    \/ \E c \in Callers : LimiterWake(c)
    \/ \E c \in Callers : Sleep(c)
    \/ \E c \in Callers : Consume(c)
    \/ \E c \in Callers : ResumeFree(c)
    \/ \E c \in Callers : ResumeWait(c)
    \/ TokensRemaining
    \/ Tick

SpecRL == InitRL /\ [][NextRL]_vars

\* the steps of acquire() caller c
CallerStep(c) ==
    \/ GetRateLimiter(c)
    \/ EnterFree(c)
    \/ EnterWait(c)
    \/ LimiterWake(c)
    \/ Sleep(c)
    \/ Consume(c)
    \/ ResumeFree(c)
    \/ ResumeWait(c)

NextRLFair ==
    \/ NextRL
    \/ TickShift

\* time keeps advancing and the event loop runs every caller that is ready
SpecRLFair ==
    /\ InitRL
    /\ [][NextRLFair]_vars
    /\ WF_vars(Tick \/ TickShift)
    /\ \A c \in Callers : WF_vars(CallerStep(c))

\* the alert route in front of one InvestigationRunner: triggers go through
\* trigger_alert and the background runs proceed as under Spec
NextAlert ==
    \/ \E c \in Calls : AlertUnknownScenario(c)
    \/ \E c \in Calls : AlertConflict(c)
    \/ \E c \in Calls : AlertSeverityRaises(c)
    \/ \E c \in Calls : AlertBegin(c)
    \/ \E c \in Calls : CreateCommit(c)
    \/ \E c \in Calls : CreateRefresh(c)
    \/ \E c \in Calls : AlertRespond(c)
    \/ \E r \in Calls : RunAcquire(r)
    \/ \E r \in Calls : RunWake(r)
    \/ \E r \in Calls : RunInvestigatingCommit(r)
    \/ \E r \in Calls : RunInvestigatingRefresh(r)
    \/ \E r \in Calls : RunInvokeReturns(r)
    \/ \E r \in Calls : RunInvokeRaises(r)
    \/ \E r \in Calls : RunCompletedCommit(r)
    \/ \E r \in Calls : RunCompletedRefreshOk(r)
    \/ \E r \in Calls : RunCompletedRefreshRaises(r)
    \/ \E r \in Calls : RunFailedCommit(r)
    \/ \E r \in Calls : RunFailedRefresh(r)

SpecAlert == Init /\ [][NextAlert]_vars

\* the investigation whose record the report requests follow
FirstCall == 1

\* the report routes beside one InvestigationRunner: the first investigation
\* starts and runs as under Spec, and reports are requested at any time, for
\* its id, for an id not yet stored and for an id that was never issued
NextReport ==
    \/ StartInvalid(FirstCall)
    \/ StartBegin(FirstCall)
    \/ CreateCommit(FirstCall)
    \/ CreateRefresh(FirstCall)
    \/ RunAcquire(FirstCall)
    \/ RunInvestigatingCommit(FirstCall)
    \/ RunInvestigatingRefresh(FirstCall)
    \/ RunInvokeReturns(FirstCall)
    \/ RunInvokeRaises(FirstCall)
    \/ RunCompletedCommit(FirstCall)
    \/ RunCompletedRefreshOk(FirstCall)
    \/ RunCompletedRefreshRaises(FirstCall)
    \/ RunFailedCommit(FirstCall)
    \/ RunFailedRefresh(FirstCall)
    \/ \E id \in ReportIds : ReportMarkdown(id)
    \/ \E id \in ReportIds : ReportPdf(id)

SpecReport == Init /\ [][NextReport]_vars

\* the repository functions called directly on one table
NextRepo ==
    \/ \E id \in Calls : RepoCreate(id)
    \/ \E id \in RepoIds, kw \in UpdateKwargs : RepoUpdateAbsent(id, kw)
    \/ \E id \in RepoIds, kw \in UpdateKwargs : RepoUpdateFound(id, kw)
    \/ RepoUpdateCommit
    \/ RepoUpdateRefresh

SpecRepo == Init /\ [][NextRepo]_vars


----------------------------------------------------------------------------
(* Properties of the runner, checked under Spec *)

InGuard == {r \in Calls : runpc[r] \in Guarded}

\* C1: at any time at most one background run is between acquiring and
\* releasing the single-flight lock.
C1_AtMostOneInGuard == Cardinality(InGuard) <= 1

\* one run executes while another, accepted in the meantime, waits on the lock
C1_Witness ==
    \E a, b \in Calls : runpc[a] \in Guarded /\ runpc[b] = "waiting"

\* an investigation was accepted (its id returned) and has not finished
Active(a) == callpc[a] = "accepted" /\ runpc[a] \notin Ended

\* C2: every start_investigation call (with valid arguments) made while an
\* accepted investigation has not finished fails with
\* InvestigationAlreadyRunning.
C2_SecondTriggerRejected ==
    [][\A c \in Calls :
          (/\ callpc[c] = "idle"
           /\ callpc'[c] \notin {"idle", "invalid"}
           /\ \E a \in Calls : Active(a))
          => callpc'[c] = "rejected"]_vars

\* C3: whenever a background run ends (normally, through the except handler,
\* or with the handler's own update raising) the lock is free and
\* current_investigation_id is None in the resulting state, so the guard of
\* start_investigation lets the next call through; and the lock is never
\* held while no run is inside the guarded section.
C3_ReleasedOnEveryExit ==
    [][/\ \A r \in Calls :
             (runpc[r] \in Guarded /\ runpc'[r] \in Ended)
             => (~locked' /\ current_id' = 0)
       /\ (locked' => \E r \in Calls : runpc'[r] \in Guarded)]_vars

\* a run ended on an exception and a later call has passed the guard
C3_Witness ==
    \E a, b \in Calls :
        /\ a < b
        /\ runpc[a] \in Ended
        /\ runErr[a] # ""
        /\ ~locked
        /\ current_id = 0
        /\ callpc[b] = "creating"

FailedFields(r) ==
    /\ r \in stored
    /\ db[r].status = "failed"
    /\ db[r].duration_seconds # Null
    /\ db[r].completed_at # Null
    /\ db[r].agent_errors = Some(<<runErr[r]>>)

\* C4 as stated: every run that caught an exception from the workflow or
\* from persistence ends with "failed", the duration, the completion time and
\* agent_errors = [error text] persisted.
C4_FailedAlwaysPersisted ==
    \A r \in Calls : (runpc[r] \in Ended /\ runErr[r] # "") => FailedFields(r)

\* C4 amended: a run that caught an exception issues the "failed" update; once
\* that update has committed the record has status "failed", the duration,
\* the completion time and agent_errors = [error text]; "failed" is stored
\* in no other case; and the call that started the run stays accepted.
C4_FailedPersistedWhenCommitted ==
    \A r \in Calls :
        /\ (runErr[r] # "" /\ runpc[r] \in {"ref_fail", "done"}) => FailedFields(r)
        /\ (r \in stored /\ db[r].status = "failed")
              => (runErr[r] # "" /\ FailedFields(r))
        /\ runpc[r] # "none" => callpc[r] = "accepted"

\* a workflow exception was caught, persisted as failed, and the run returned
C4_Witness ==
    \E r \in Calls :
        /\ runpc[r] = "done"
        /\ runErr[r] = "workflow error"
        /\ db[r].status = "failed"
        /\ db[r].agent_errors = Some(<<"workflow error">>)

CoarseStatuses == {"detecting", "investigating", "completed", "failed"}

StatusRank(st) ==
    CASE st = "detecting" -> 0
      [] st = "investigating" -> 1
      [] OTHER -> 2

\* C5: every stored record has a coarse status, a status never moves
\* backwards, and completed and failed are never left.
C5_StatusForwardOnly ==
    [][\A id \in Calls :
          /\ id \in stored' => db'[id].status \in CoarseStatuses
          /\ id \in stored =>
                /\ StatusRank(db'[id].status) >= StatusRank(db[id].status)
                /\ db[id].status \in {"completed", "failed"}
                      => db'[id].status = db[id].status]_vars

----------------------------------------------------------------------------
(* Properties of the workflow, checked under SpecWf *)

RECURSIVE Count(_, _)
Count(seq, x) ==
    IF seq = <<>> THEN 0
    ELSE (IF Head(seq) = x THEN 1 ELSE 0) + Count(Tail(seq), x)

Ran(n) == Count(history, n) > 0

\* index of the first completion of n (0 when it has not run)
Pos(n) ==
    IF Ran(n) THEN CHOOSE i \in 1..Len(history) :
                      history[i] = n /\ \A j \in 1..(i - 1) : history[j] # n
    ELSE 0

Before(m, n) == Ran(n) => (Ran(m) /\ Pos(m) < Pos(n))

RECURSIVE Select(_, _)
Select(seq, key) ==
    IF seq = <<>> THEN <<>>
    ELSE (IF Head(seq)[1] = key THEN <<Head(seq)>> ELSE <<>>)
         \o Select(Tail(seq), key)

RECURSIVE FindingsOf(_, _)
FindingsOf(seq, a) ==
    IF seq = <<>> THEN <<>>
    ELSE (IF Head(seq).agent_name = a THEN <<Head(seq)>> ELSE <<>>)
         \o FindingsOf(Tail(seq), a)

LLMSteps == {"plan", "decide"} \cup Agents

AllLLMCallsRaised == \A n \in LLMSteps : outcome[n].kind = "raise"

\* C6: when every LLM call raises, the workflow still ends, with exactly
\* three findings of confidence 0.0, a non-empty agent_errors list and a
\* report.
C6_TotalOutage ==
    /\ (wfpc = "running" => active # {})
    /\ (wfpc = "done" /\ AllLLMCallsRaised) =>
          /\ Len(wfState.findings) = 3
          /\ \A i \in 1..Len(wfState.findings) : wfState.findings[i].confidence = 0
          /\ wfState.agent_errors # <<>>
          /\ wfState.report.present
          /\ wfState.report.nfindings = 3

C6_Witness == wfpc = "done" /\ AllLLMCallsRaised

FanInDone == \A a \in Agents : Ran(a)

\* C7: decide runs at most once (exactly once in a finished run) and only
\* after all three agents have finished, and the state it reads holds
\* exactly three findings, one per agent.
C7_FanIn ==
    /\ Count(history, "decide") <= 1
    /\ (wfpc = "done" => Count(history, "decide") = 1)
    /\ \A a \in Agents : Before(a, "decide")
    /\ ("decide" \in active) =>
          /\ FanInDone
          /\ Len(wfState.findings) = 3
          /\ \A a \in Agents : Len(FindingsOf(wfState.findings, a)) = 1

\* decide is about to run after deploy finished first and logs last, with
\* one agent failed and one succeeded
C7_Witness ==
    /\ "decide" \in active
    /\ Pos("deploy_agent") < Pos("metrics_agent")
    /\ Pos("metrics_agent") < Pos("logs_agent")
    /\ outcome["logs_agent"].kind = "raise"
    /\ outcome["deploy_agent"].kind = "ok"

AgentLabel(a) ==
    CASE a = "logs_agent" -> "Logs Agent"
      [] a = "metrics_agent" -> "Metrics Agent"
      [] OTHER -> "Deploy Agent"

\* what agent a contributes, from its own LLM outcome alone
Contribution(a) ==
    LET o == outcome[a] IN
    IF o.kind = "raise"
    THEN [findings |-> <<[agent_name |-> a, summary |-> "analysis failed",
                          confidence |-> 0]>>,
          agent_errors |-> <<<<a, ErrText>>>>,
          reasoning_trace |-> <<<<AgentLabel(a), "FAILED", ErrText>>>>]
    ELSE [findings |-> <<[agent_name |-> a,
                          summary |-> IF o.kind = "ok" THEN "llm_summary"
                                      ELSE "raw_reply",
                          confidence |-> o.confidence]>>,
          agent_errors |-> <<>>,
          reasoning_trace |-> <<<<AgentLabel(a),
                                  IF o.kind = "ok" THEN "llm_summary"
                                  ELSE "raw_reply">>>>]

\* C8: after fan-in each agent has exactly the finding, agent_errors entry
\* and trace entry its own outcome determines (a failed agent: one finding
\* of confidence 0.0 and one "<agent>: <error>" entry), whatever its
\* siblings did; and a finished run has a report.
C8_FailureIsolated ==
    /\ (FanInDone /\ ranNow \cap Agents = {}) =>
          \A a \in Agents :
              /\ FindingsOf(wfState.findings, a) = Contribution(a).findings
              /\ Select(wfState.agent_errors, a) = Contribution(a).agent_errors
              /\ Select(wfState.reasoning_trace, AgentLabel(a))
                    = Contribution(a).reasoning_trace
    /\ (wfpc = "done") => (Ran("report") /\ wfState.report.present)

\* exactly one agent failed and the run reached report
C8_Witness ==
    /\ wfpc = "done"
    /\ outcome["metrics_agent"].kind = "raise"
    /\ outcome["logs_agent"].kind = "ok"
    /\ outcome["deploy_agent"].kind = "ok"
    /\ Len(wfState.findings) = 3
    /\ Len(wfState.agent_errors) = 1

\* C9: detect, plan, the three agents, decide, act (if routed) and report
\* complete in that order, each at most once; a run that has not finished
\* always has a step to take; a finished run ran detect, plan, every agent,
\* decide and report exactly once and report last.
C9_StageOrder ==
    /\ \A n \in Nodes : Count(history, n) <= 1
    /\ Before("detect", "plan")
    /\ \A a \in Agents : Before("plan", a) /\ Before(a, "decide")
    /\ Before("decide", "act")
    /\ Before("decide", "report")
    /\ Before("act", "report") \/ ~Ran("act")
    /\ (wfpc = "running") => (active # {} /\ \A n \in active : ~Ran(n))
    /\ (wfpc = "done") =>
          /\ active = {}
          /\ \A n \in Nodes \ {"act"} : Count(history, n) = 1
          /\ history[Len(history)] = "report"

\* a finished run that went through act
C9_Witness == wfpc = "done" /\ Ran("act") /\ Len(history) = 8

\* the confidence decide produced, from its LLM outcome
DecidedConfidence ==
    IF outcome["decide"].kind = "raise" THEN 0 ELSE outcome["decide"].confidence

ActRouted == "act" \in active \/ Ran("act")

\* C10: act is scheduled exactly when decide has run and produced a
\* confidence >= the configured threshold; otherwise report follows decide
\* directly.
C10_Routing ==
    /\ ~Ran("decide") => ~ActRouted
    /\ Ran("decide") =>
          /\ ActRouted <=> DecidedConfidence >= settings.threshold
          /\ ~ActRouted => ("report" \in active \/ Pos("report") = Pos("decide") + 1)

\* confidence equal to the default threshold was routed to act
C10_Witness ==
    /\ Ran("act")
    /\ settings.threshold = DefaultThreshold
    /\ DecidedConfidence = DefaultThreshold

----------------------------------------------------------------------------
(* Properties of the rate limiter, checked under SpecRL *)

\* the limiter under study, once constructed
Lim == limiter[1]

\* C11: whatever sequence of acquire() calls, refills and tokens_remaining
\* reads happens, with whatever elapsed times, the token count never exceeds
\* burst_size.
C11_TokensAtMostBurst ==
    limiter # Null => tokens <= Lim.burst_size * TokenScale

\* a token was consumed and so much time has passed since construction that
\* the refills would have given back more than was consumed: the count
\* stands exactly at burst_size
C11_Witness ==
    /\ limiter # Null
    /\ acquired >= 1
    /\ last_refill = now
    /\ RefillAmount(Lim, now - born) > acquired * TokenScale
    /\ tokens = Lim.burst_size * TokenScale

\* the caller that holds the lock
Holders == {c \in Callers : rlpc[c] = "holding"}

\* C12: an acquire() returns only after its caller, holding the lock, has
\* seen at least one whole token, and it deducts exactly one; so the token
\* count is never negative and the number of acquire() calls that have
\* returned by time t after construction is at most
\* burst_size + t * requests_per_minute / 60.
C12_AcquireBounded ==
    /\ [](limiter # Null =>
            /\ tokens >= 0
            /\ acquired * TokenScale
                  <= Lim.burst_size * TokenScale
                     + RefillAmount(Lim, now - born))
    /\ [][acquired' # acquired =>
            /\ acquired' = acquired + 1
            /\ rlLocked
            /\ rlHolder \in Holders
            /\ refill(Lim, tokens, last_refill, now) >= TokenScale
            /\ tokens' = refill(Lim, tokens, last_refill, now) - TokenScale]_vars

\* more acquire() calls have returned than the burst allows at once, and the
\* rate bound is met with equality
C12_Witness ==
    /\ limiter # Null
    /\ acquired > Lim.burst_size
    /\ acquired * TokenScale
          = Lim.burst_size * TokenScale + RefillAmount(Lim, now - born)

\* C13: at most one caller at a time is inside the locked region where the
\* token count is read and updated by acquire(); a caller in the wait phase
\* (sleeping) does not hold the lock, so the lock is free for another caller
\* unless a third one holds it; and the lock is released only by the caller
\* that holds it.
C13_LockDiscipline ==
    /\ [](/\ Cardinality(Holders) <= 1
          /\ rlLocked <=> Holders # {}
          /\ \A c \in Callers : rlpc[c] = "holding" <=> rlHolder = c
          /\ \A c \in Callers : rlpc[c] = "sleeping" => rlHolder # c)
    /\ [][/\ (rlLocked /\ ~rlLocked') =>
               /\ rlHolder \in Holders
               /\ rlpc'[rlHolder] \in {"sleeping", "done"}
          /\ (limiter # Null /\ tokens' # tokens /\ rlpc' # rlpc) =>
               /\ rlHolder \in Holders
               /\ rlpc'[rlHolder] # "holding"]_vars

\* while one caller sleeps in the wait phase, another one holds the lock and
\* finds a whole token to consume
C13_Witness ==
    \E a, b \in Callers :
        /\ rlpc[a] = "sleeping"
        /\ now < wakeAt[a]
        /\ rlpc[b] = "holding"
        /\ refill(Lim, tokens, last_refill, now) >= TokenScale

\* C14: a limiter constructed with burst_size = b starts with exactly b
\* tokens; as long as no time has elapsed since construction no caller
\* enters the wait phase before b acquire() calls have returned, and once b
\* have returned fewer than one whole token is left.
C14_BurstWithoutWaiting ==
    limiter # Null =>
        /\ acquired = 0 => tokens = Lim.burst_size * TokenScale
        /\ now = born =>
              \A c \in Callers : rlpc[c] = "sleeping" => acquired = Lim.burst_size
        /\ (now = born /\ acquired = Lim.burst_size) => tokens < TokenScale

\* no time has elapsed, burst_size calls have returned and the next caller
\* is the first to sleep
C14_Witness ==
    /\ limiter # Null
    /\ now = born
    /\ acquired = Lim.burst_size
    /\ tokens < TokenScale
    /\ \E c \in Callers : rlpc[c] = "sleeping"

\* C15: the limiter built by get_rate_limiter is a single instance whose
\* requests_per_minute and burst_size equal the configured settings
\* rate_limit_requests_per_minute and rate_limit_burst_size.
C15_LimiterMatchesSettings ==
    (limiter # Null /\ Lim.origin = "get_rate_limiter") =>
        /\ Lim.requests_per_minute = rate_settings.rate_limit_requests_per_minute
        /\ Lim.burst_size = rate_settings.rate_limit_burst_size

----------------------------------------------------------------------------
(* Properties of the HTTP routes, checked under SpecAlert and SpecReport *)

\* the request that was answered
Req(c) == alertReq[c][1]

Answered == {c \in Calls : alertResp[c] # NoResponse}

\* C16: POST /api/v1/alert answers 400 when scenario_type is not registered,
\* 409 when the runner rejects the trigger because an investigation is
\* running, and in every other case 201 with the new investigation id and
\* status "detecting".
C16_AlertStatusCodes ==
    \A c \in Answered :
        IF Req(c).scenario_type \notin RegisteredScenarios
        THEN alertResp[c] = HTTPException(400)
        ELSE IF callpc[c] = "rejected"
        THEN alertResp[c] = HTTPException(409)
        ELSE alertResp[c] = InvestigationCreatedResponse(c)

\* the record a report request was about
Finished == {"completed", "failed"}

\* C17: a report request (markdown or PDF) is answered 404 when the id is not
\* stored, 400 when the record exists and its status is neither completed
\* nor failed, and 200 only when the status is completed or failed; it leaves
\* the stored records unchanged.
C17_ReportStatusCodes ==
    [][reportResp' # reportResp =>
        LET r == reportResp'[1] IN
        /\ r.id \notin stored => r.code = 404
        /\ (r.id \in stored /\ db[r.id].status \notin Finished) => r.code = 400
        /\ r.code = 200 => (r.id \in stored /\ db[r.id].status \in Finished)
        /\ r.code = 404 => r.id \notin stored
        /\ db' = db
        /\ stored' = stored]_vars

\* a PDF report was served for an investigation that ended as failed
C17_Witness ==
    /\ reportResp # Null
    /\ reportResp[1].kind = "pdf"
    /\ reportResp[1].code = 200
    /\ reportResp[1].id \in stored
    /\ db[reportResp[1].id].status = "failed"

\* C18: an alert request whose scenario name is unknown, or whose severity
\* is no recognised value and that reaches the data generator, is answered
\* 400 with a detail message.
C18_InvalidInputIs400 ==
    \A c \in Answered :
        (\/ Req(c).scenario_type \notin RegisteredScenarios
         \/ (Req(c).severity \notin Severities /\ callpc[c] # "rejected"))
        => alertResp[c] = HTTPException(400)

----------------------------------------------------------------------------
(* Properties of the degraded and final workflow states, checked under     *)
(* SpecWf                                                                   *)

\* LLM-calling steps whose call raised or whose reply did not parse
Degraded == {n \in LLMSteps : outcome[n].kind \in {"raise", "unparseable"}}

RaisedAgents == {a \in Agents : outcome[a].kind = "raise"}

\* C19 as stated: a finished workflow has a report, and every LLM-calling
\* step that degraded (call failed or reply unparseable) has left its failure
\* text in the agent_errors list.
C19_DegradedInAgentErrors ==
    wfpc = "done" =>
        /\ wfState.report.present
        /\ Len(wfState.agent_errors) >= Cardinality(Degraded)

\* C19 amended: a finished workflow has a report whatever degraded; the
\* agent_errors list holds exactly one entry "<agent>: <error>" per
\* specialist agent whose step raised and nothing else; a plan or decide
\* step that raised has left the error text in the reasoning trace (decide
\* also as the root cause), and an unparseable reply leaves no error entry.
C19_DegradedRecorded ==
    wfpc = "done" =>
        /\ wfState.report.present
        /\ Len(wfState.agent_errors) = Cardinality(RaisedAgents)
        /\ \A a \in Agents :
              Select(wfState.agent_errors, a)
                 = IF a \in RaisedAgents THEN <<<<a, ErrText>>>> ELSE <<>>
        /\ outcome["plan"].kind = "raise" =>
              /\ wfState.plan = "fallback_plan"
              /\ Count(wfState.reasoning_trace,
                       <<"Commander", "Plan creation failed", ErrText>>) = 1
        /\ outcome["decide"].kind = "raise" =>
              /\ wfState.root_cause = "Decision failed"
              /\ wfState.confidence = 0
              /\ Count(wfState.reasoning_trace,
                       <<"Commander", "Decision FAILED", ErrText>>) = 1

\* plan and decide raised, one agent raised and another replied unparseably:
\* four steps degraded, one agent_errors entry
C19_Witness ==
    /\ wfpc = "done"
    /\ outcome["plan"].kind = "raise"
    /\ outcome["decide"].kind = "raise"
    /\ outcome["logs_agent"].kind = "raise"
    /\ outcome["metrics_agent"].kind = "unparseable"
    /\ outcome["deploy_agent"].kind = "ok"
    /\ Len(wfState.agent_errors) = 1

\* C20 as stated: in the final state of every workflow execution the status
\* is completed and the report is present.
C20_FinalStatusCompleted ==
    wfpc = "done" =>
        /\ wfState.status = "completed"
        /\ wfState.report.present

\* C20 amended: in the final state of every workflow execution the report is
\* present and carries the status completed, while the status of the
\* workflow state itself is reporting.
C20_FinalStatusReporting ==
    wfpc = "done" =>
        /\ wfState.status = "reporting"
        /\ wfState.report.present
        /\ wfState.report.status = "completed"

\* a finished execution that went through act
C20_Witness ==
    /\ wfpc = "done"
    /\ Ran("act")
    /\ Ran("report")
    /\ wfState.report.present

----------------------------------------------------------------------------
(* Properties of the data access layer, checked under SpecRepo *)

\* C21: an update of an id that is not stored returns None and leaves every
\* record as it was; an update of a stored id changes, in that record only,
\* nothing but the passed fields the record has, adds no field for a key the
\* record does not have, and once it has returned the record each such field
\* holds the passed value.
C21_UpdateFrame ==
    [][(repoCall'.op = "update" /\
        <<db, stored, repoCall, repoRet, repopc>>' # <<db, stored, repoCall, repoRet, repopc>>) =>
        LET id == repoCall'.id
            kw == repoCall'.kwargs
        IN  /\ stored' = stored
            /\ id \notin stored => (db' = db /\ repoRet' = "None")
            /\ id \in stored =>
                  /\ repoRet' # "None"
                  /\ \A j \in Calls \ {id} : db'[j] = db[j]
                  /\ DOMAIN db'[id] = DOMAIN db[id]
                  /\ \A f \in DOMAIN db[id] \ DOMAIN kw : db'[id][f] = db[id][f]
                  /\ \A f \in DOMAIN db[id] \cap DOMAIN kw :
                        db'[id][f] \in {db[id][f], kw[f]}
                  /\ repoRet' = "record" =>
                        \A f \in DOMAIN db[id] \cap DOMAIN kw : db'[id][f] = kw[f]]_vars

\* an update carrying a recognised and an unrecognised key has returned the
\* record, with the status changed, while another record is stored
C21_Witness ==
    /\ repoCall.op = "update"
    /\ repoRet = "record"
    /\ "nonexistent_field" \in DOMAIN repoCall.kwargs
    /\ db[repoCall.id].status = "completed"
    /\ \E j \in stored \ {repoCall.id} : db[j].status = "failed"

----------------------------------------------------------------------------
(* Properties of the remediation connector, checked under SpecRollback *)

----------------------------------------------------------------------------
(* Properties of the act step, checked under SpecWf *)

----------------------------------------------------------------------------
(* Properties of the service topology, checked under SpecTopo *)

\* C24: over the eight services, a is listed by get_dependents(b) exactly
\* when b is listed by get_dependencies(a), and neither list names a service
\* twice; both functions return the empty list for a name that is not a
\* service; get_dependents("api-gateway") is empty; and the depends_on edges
\* have no cycle: a traversal along them never visits a service twice.
C24_TopologyReverse ==
    /\ topoCall.fn = "get_dependents" =>
          /\ \A a \in ServiceArgs :
                (\E i \in DOMAIN topoRet : topoRet[i] = a) <=>
                (\E j \in DOMAIN get_dependencies(a) :
                      get_dependencies(a)[j] = topoCall.arg)
          /\ topoCall.arg = "api-gateway" => topoRet = <<>>
    /\ topoCall.fn = "get_dependencies" =>
          \A b \in ServiceArgs :
                (\E i \in DOMAIN topoRet : topoRet[i] = b) <=>
                (\E j \in DOMAIN get_dependents(b) :
                      get_dependents(b)[j] = topoCall.arg)
    /\ topoCall.arg \notin DOMAIN SERVICE_TOPOLOGY => topoRet = <<>>
    /\ \A i, j \in DOMAIN topoRet : topoRet[i] = topoRet[j] => i = j
    /\ \A i, j \in DOMAIN walk : walk[i] = walk[j] => i = j

\* get_dependents("postgres-db") has returned its four dependents while a
\* traversal stands at the end of the longest chain
C24_Witness ==
    /\ topoCall = [fn |-> "get_dependents", arg |-> "postgres-db"]
    /\ topoRet = <<"checkout-service", "payment-gateway", "inventory-service",
                   "user-auth">>
    /\ walk = <<"api-gateway", "checkout-service", "payment-gateway",
                "postgres-db">>

----------------------------------------------------------------------------
(* Properties of the runner's state pointer, checked under Spec *)

\* C25: in every state another task can observe, is_running (the lock is
\* held) is true exactly when current_investigation_id is set, and a set
\* current_investigation_id is the id of the one run inside the guard.
C25_PointerMatchesGuard ==
    /\ locked <=> current_id # 0
    /\ current_id # 0 => InGuard = {current_id}
    /\ current_id = 0 => InGuard = {}

\* the second run holds the guard after queueing behind the first, which
\* has ended
C25_Witness ==
    /\ locked
    /\ current_id = 2
    /\ runpc[1] \in Ended
    /\ runpc[2] = "invoke"

\* C26: the stored investigation ids are the ids returned by successful
\* start_investigation calls: once a call has ended, its record is stored
\* exactly when the call returned an id; a call returns its id only after
\* its record (status detecting, alert snapshot) is stored, and at that
\* moment its one background run is scheduled, and no run exists for any
\* other call; a call rejected as already running or for invalid arguments
\* leaves the store and the runner as they were.
C26_StoredAreReturned ==
    [][/\ \A c \in Calls :
             callpc'[c] \in {"accepted", "rejected", "invalid", "db_error"}
             => (c \in stored' <=> callpc'[c] = "accepted")
       /\ \A c \in Calls :
             (callpc[c] # "accepted" /\ callpc'[c] = "accepted")
             => /\ c \in stored
                /\ db[c] = NewRecord(c)
                /\ runpc[c] = "none"
                /\ runpc'[c] = "scheduled"
       /\ \A c \in Calls : runpc'[c] # "none" => callpc'[c] = "accepted"
       /\ \A c \in Calls :
             (callpc[c] = "idle" /\ callpc'[c] \in {"rejected", "invalid"})
             => UNCHANGED <<locked, waiters, current_id, db, stored, runpc>>
      ]_vars

----------------------------------------------------------------------------
(* Progress of the runner, checked under SpecFair *)

\* C27: every accepted investigation eventually has the persisted status
\* completed or failed.
C27_EventuallyTerminal ==
    \A r \in Calls :
        (callpc[r] = "accepted") ~> (db[r].status \in {"completed", "failed"})

\* C27 (amended): every accepted investigation eventually either has the
\* persisted status completed or failed, or its run has ended with an
\* exception leaving _run (the handler's own update raised).
C27_EventuallyTerminalOrCrashed ==
    \A r \in Calls :
        (callpc[r] = "accepted") ~>
            (db[r].status \in {"completed", "failed"} \/ runpc[r] = "crashed")

\* the first run ended with its record still investigating, and the second,
\* which queued behind it, has completed
C27_Witness ==
    /\ callpc[1] = "accepted" /\ callpc[2] = "accepted"
    /\ runpc[1] = "crashed" /\ db[1].status = "investigating"
    /\ runpc[2] = "done" /\ db[2].status = "completed"

----------------------------------------------------------------------------
(* Progress of the rate limiter, checked under SpecRLFair *)

\* C28: with time advancing and fair scheduling, every caller that has
\* called acquire() on the limiter eventually has its call return; no set
\* of concurrent callers blocks forever on the limiter's lock.
C28_AcquireReturns ==
    \A c \in Callers : (rlpc[c] # "idle") ~> (rlpc[c] = "done")

\* every caller has returned from a limiter whose bucket holds fewer tokens
\* than there are callers, so at least one of them went through the sleep
C28_Witness ==
    /\ \A c \in Callers : rlpc[c] = "done"
    /\ acquired = MaxCallers
    /\ limiter # Null
    /\ limiter[1].burst_size < MaxCallers

----------------------------------------------------------------------------
(* Safety of the automatic rollback, checked under SpecWf *)

\* C29: the connector is called at most once in a workflow, and only by the
\* act step after decide produced a confidence at or above the threshold
\* while token and repository are both set; and under any positive threshold
\* a failed decide (confidence 0) leads to no connector call, no act step,
\* and remediation_action stays absent, in the state and in the report.
C29_RollbackOnlyWhenConfident ==
    /\ rollbackCalls <= 1
    /\ rollbackCalls = 1 =>
          /\ Ran("decide") /\ Ran("act") /\ Pos("decide") < Pos("act")
          /\ DecidedConfidence >= settings.threshold
          /\ settings.github_token /\ settings.github_rollback_repo
    /\ (outcome["decide"].kind = "raise" /\ settings.threshold > 0) =>
          /\ rollbackCalls = 0
          /\ ~ActRouted
          /\ wfState.remediation_action = "None"
          /\ wfState.report.present =>
                wfState.report.remediation_action = "None"

\* a workflow has finished with rollbacks configured and a positive
\* threshold after its decide step failed
C29_Witness ==
    /\ wfpc = "done"
    /\ outcome["decide"].kind = "raise"
    /\ wfState.confidence = 0
    /\ settings.threshold > 0
    /\ settings.github_token /\ settings.github_rollback_repo
    /\ rollbackCalls = 0
    /\ wfState.report.present

----------------------------------------------------------------------------
(* Properties of the deployment evidence, checked under SpecDeploy *)

\* C30: under the default lookback of 60 minutes, for every scenario that
\* generates a deployment event, the deploy agent's evidence window
\* [alert - 60 min, alert + 5 min] contains that deployment's timestamp, so
\* both of its get_deployments calls list the event.
C30_DeploymentInWindow ==
    (/\ dwQuery # Null
     /\ dwQuery[1].window_minutes = DefaultTimeWindowMinutes)
    => \A i \in DOMAIN dwData[1].deployments :
          /\ dwData[1].deployments[i].timestamp >= dwQuery[1].time_start
          /\ dwData[1].deployments[i].timestamp <= dwQuery[1].time_end
          /\ \E j \in DOMAIN dwRet : dwRet[j] = dwData[1].deployments[i]

====
